---- MODULE Spec2Model ----
(***************************************************************************)
(* Model of the zedit text-editing engine: positions and intervals         *)
(* (src/positions.go), the tag container (src/tags.go), and the editor's   *)
(* buffer operations (src/unnamed/part_001: SetText, Insert, Delete,       *)
(* Return, Backspace, caret motion, word wrapping and tag adjustment).     *)
(***************************************************************************)
EXTENDS Integers, Sequences, FiniteSets, TLC

VARIABLES Rows, caretPos, Tags, Config, panicked, unhandled, lineOffset, last,
          goroutines, mutex, repaint, blink

vars == <<Rows, caretPos, Tags, Config, panicked, unhandled, lineOffset, last,
          goroutines, mutex, repaint, blink>>

\* goroutines: the goroutines besides the caller's, each a record of its
\* position and locals; mutex: the holder of TagContainer.mutex, 0 for none;
\* repaint: lastRefreshed and refresher of the editor; blink: the caret-blink
\* fields of the editor.  The buffer operations are calls of one goroutine
\* and touch none of them.
NoGoroutines ==
    /\ goroutines = <<>>
    /\ mutex = 0
    /\ repaint = <<>>
    /\ blink = <<>>

SameGoroutines == UNCHANGED <<goroutines, mutex, repaint, blink>>

(***************************************************************************)
(* Generic helpers for Go maps and slices.                                 *)
(***************************************************************************)
EmptyMap == [x \in {} |-> 0]

MapPut(f, k, v) == [x \in (DOMAIN f) \cup {k} |-> IF x = k THEN v ELSE f[x]]

MapDel(f, k) == [x \in (DOMAIN f) \ {k} |-> f[x]]

Max(a, b) == IF a > b THEN a ELSE b

Min(a, b) == IF a < b THEN a ELSE b

\* s[from:to] of Go, 0-based, to exclusive
Slice(s, from, to) == SubSeq(s, from + 1, to)

\* s[i] of Go, 0-based
At(s, i) == s[i + 1]

SeqRemoveAll(s, v) == SelectSeq(s, LAMBDA x : x # v)

SeqContains(s, v) == \E i \in 1..Len(s) : s[i] = v

RECURSIVE Flatten(_)
Flatten(ss) == IF ss = <<>> THEN <<>> ELSE Head(ss) \o Flatten(Tail(ss))

(***************************************************************************)
(* src/positions.go                                                        *)
(***************************************************************************)
Pos(l, c) == [Line |-> l, Column |-> c, IsLineNumber |-> FALSE]

CmpPos(a, b) ==
    IF a.Line < b.Line THEN -1
    ELSE IF a.IsLineNumber THEN (IF a.Line = b.Line THEN 0 ELSE 1)
    ELSE IF a.Line > b.Line THEN 1
    ELSE IF a.Column < b.Column THEN -1
    ELSE IF a.Column = b.Column THEN 0
    ELSE 1

MaxPos(a, b) == IF CmpPos(a, b) = -1 THEN b ELSE a

MinPos(a, b) == IF CmpPos(a, b) <= 0 THEN a ELSE b

Interval(s, e) == [Start |-> s, End |-> e]

OutsideOf(c1, c2) == CmpPos(c1.End, c2.Start) = -1 \/ CmpPos(c1.Start, c2.End) = 1

Contains(c, pos) == CmpPos(pos, c.Start) >= 0 /\ CmpPos(pos, c.End) <= 0

\* Overlapping as written: the receiver c1 is not used
Overlapping(c1, c2) == ~OutsideOf(c2, c2)

IntervalLines(c) == c.End.Line - c.Start.Line + 1

MaybeSwap(c) == IF CmpPos(c.Start, c.End) > 0 THEN Interval(c.End, c.Start) ELSE c

Sanitize(c, lastPos) ==
    LET r == MaybeSwap(c)
        s == Pos(Max(r.Start.Line, 0), Max(r.Start.Column, 0))
    IN  Interval(s, IF CmpPos(r.End, lastPos) > 0 THEN lastPos ELSE r.End)

(***************************************************************************)
(* The interval search tree used by the tag container                      *)
(* (interval.MultiValueSearchTree with TreeWithIntervalPoint): a map from  *)
(* an exact (start, end) key to the values stored under it.  Insert        *)
(* appends to an existing key, Upsert replaces, and both reject a key      *)
(* whose start is after its end.                                           *)
(***************************************************************************)
TreeInsert(lk, s, e, vals) ==
    IF CmpPos(s, e) > 0 THEN lk
    ELSE IF Interval(s, e) \in DOMAIN lk
         THEN MapPut(lk, Interval(s, e), lk[Interval(s, e)] \o vals)
         ELSE MapPut(lk, Interval(s, e), vals)

TreeUpsert(lk, s, e, vals) ==
    IF CmpPos(s, e) > 0 THEN lk ELSE MapPut(lk, Interval(s, e), vals)

TreeDelete(lk, s, e) == MapDel(lk, Interval(s, e))

TreeFind(lk, s, e) ==
    IF CmpPos(s, e) <= 0 /\ Interval(s, e) \in DOMAIN lk
    THEN [ok |-> TRUE, vals |-> lk[Interval(s, e)]]
    ELSE [ok |-> FALSE, vals |-> <<>>]

KeyLess(k1, k2) ==
    \/ CmpPos(k1.Start, k2.Start) < 0
    \/ (CmpPos(k1.Start, k2.Start) = 0 /\ CmpPos(k1.End, k2.End) < 0)

RECURSIVE KeysInOrder(_)
KeysInOrder(S) ==
    IF S = {} THEN <<>>
    ELSE LET m == CHOOSE k \in S : \A k2 \in S \ {k} : KeyLess(k, k2)
         IN  <<m>> \o KeysInOrder(S \ {m})

Intersects(k, s, e) == CmpPos(k.Start, e) <= 0 /\ CmpPos(s, k.End) <= 0

\* the values of every key intersecting [s, e], in key order
AllIntersections(lk, s, e) ==
    LET hit  == {k \in DOMAIN lk : Intersects(k, s, e)}
        keys == KeysInOrder(hit)
    IN  Flatten([i \in 1..Len(keys) |-> lk[keys[i]]])

(***************************************************************************)
(* src/tags.go: TagContainer.  A tag is a reference to a StandardTag; uid  *)
(* stands for the reference's identity, name and index are its fields.     *)
(***************************************************************************)
Tag(name, index, uid) == [name |-> name, index |-> index, uid |-> uid]

NewTagContainer == [tags |-> EmptyMap, lookup |-> EmptyMap, names |-> EmptyMap]

\* orderedset.Add: appends unless already a member
SetAdd(set, v) == IF SeqContains(set, v) THEN set ELSE Append(set, v)

NamesAdd(names, tag) ==
    IF tag.name \in DOMAIN names
    THEN MapPut(names, tag.name, SetAdd(names[tag.name], tag))
    ELSE MapPut(names, tag.name, <<tag>>)

TagsClear(t) == NewTagContainer

TagsLookupRange(t, iv) == AllIntersections(t.lookup, iv.Start, iv.End)

TagsLookup(t, tag) ==
    IF tag \in DOMAIN t.tags
    THEN [ok |-> TRUE, interval |-> t.tags[tag]]
    ELSE [ok |-> FALSE, interval |-> Interval(Pos(0, 0), Pos(0, 0))]

RECURSIVE AddLoop(_, _, _)
AddLoop(t, iv, tagseq) ==
    IF tagseq = <<>> THEN t
    ELSE AddLoop([t EXCEPT !.tags = MapPut(t.tags, Head(tagseq), iv),
                           !.names = NamesAdd(t.names, Head(tagseq))],
                 iv, Tail(tagseq))

TagsAdd(t, iv, tagseq) ==
    LET t1 == AddLoop(t, iv, tagseq)
    IN  [t1 EXCEPT !.lookup = TreeInsert(t1.lookup, iv.Start, iv.End, tagseq)]

\* the tree part shared by Delete and Upsert: drop tag from the values under iv
TreeDropTag(lk, iv, tag) ==
    LET found == TreeFind(lk, iv.Start, iv.End)
        rest  == SeqRemoveAll(found.vals, tag)
    IN  IF ~found.ok THEN lk
        ELSE IF Len(rest) > 0 THEN TreeUpsert(lk, iv.Start, iv.End, rest)
        ELSE TreeDelete(lk, iv.Start, iv.End)

TagsDelete(t, tag) ==
    IF tag \notin DOMAIN t.tags THEN t
    ELSE LET iv    == t.tags[tag]
             found == TreeFind(t.lookup, iv.Start, iv.End)
         IN  IF ~found.ok THEN [t EXCEPT !.tags = MapDel(t.tags, tag)]
             ELSE [tags   |-> MapDel(t.tags, tag),
                   names  |-> IF tag.name \in DOMAIN t.names
                              THEN MapPut(t.names, tag.name, SeqRemoveAll(t.names[tag.name], tag))
                              ELSE t.names,
                   lookup |-> TreeDropTag(t.lookup, iv, tag)]

RECURSIVE DeleteLoop(_, _)
DeleteLoop(t, tagseq) ==
    IF tagseq = <<>> THEN t ELSE DeleteLoop(TagsDelete(t, Head(tagseq)), Tail(tagseq))

TagsDeleteByName(t, name) ==
    IF name \notin DOMAIN t.names THEN t ELSE DeleteLoop(t, t.names[name])

TagsUpsert(t, tag, iv) ==
    LET lk1 == IF tag \in DOMAIN t.tags THEN TreeDropTag(t.lookup, t.tags[tag], tag) ELSE t.lookup
    IN  [tags   |-> MapPut(t.tags, tag, iv),
         names  |-> NamesAdd(t.names, tag),
         lookup |-> TreeInsert(lk1, iv.Start, iv.End, <<tag>>)]

RECURSIVE SetAllLoop(_, _)
SetAllLoop(t, tws) ==
    IF tws = <<>> THEN t
    ELSE SetAllLoop(TagsAdd(t, Head(tws).Interval, <<Head(tws).Tag>>), Tail(tws))

TagsSetAllTags(t, tws) == SetAllLoop(TagsClear(t), tws)

(***************************************************************************)
(* Editor configuration (NewConfig) and runes.  Runes are code points.     *)
(***************************************************************************)
HardLF == 32

SoftLF == 13

NewLine == 10

\* unicode.IsSpace on the runes of the model
IsSpace(r) == r \in {9, 10, 11, 12, 13, 32}

\* Config.LineWrap and Config.SoftWrap as NewConfig sets them
NewConfig == [LineWrap |-> TRUE, SoftWrap |-> TRUE, HighlightParens |-> TRUE,
              HighlightParenRange |-> FALSE, DrawCaret |-> TRUE]

\* Editor.Columns: the wrap column (NewEditor's columns argument + 1)
Columns == 3

\* Editor.Lines: the number of lines displayed
Lines == 2

SelectionTag == Tag("selection", 0, 1)

HighlightTag == Tag("highlight", 0, 2)

ErrorTag == Tag("error", 0, 3)

ParenErrorTag == Tag("error", 1, 4)

MarkTags(n) == Tag("mark", n, 10 + n)

(***************************************************************************)
(* Word wrapping: WordWrapRows, adjustTags, xCellsToRow, cellsContainCursor*)
(***************************************************************************)
xCell(r, isCursor, tg) == [Rune |-> r, IsCursorCell |-> isCursor, tags |-> tg]

xTag(tag, isStart) == [tag |-> tag, isStart |-> isStart]

\* every (row, column, rune) of rows in reading order
RowCells(rows) ==
    Flatten([i \in 1..Len(rows) |->
               [j \in 1..Len(rows[i]) |->
                  [i |-> i - 1, j |-> j - 1, c |-> rows[i][j], isLast |-> j = Len(rows[i])]]])

\* the start/end marks a cell at (line, j) carries for the given tags
RECURSIVE CellTags(_, _, _, _)
CellTags(t, tagseq, line, j) ==
    IF tagseq = <<>> THEN <<>>
    ELSE LET tag == Head(tagseq)
             lk  == TagsLookup(t, tag)
             isStart == lk.ok /\ CmpPos(lk.interval.Start, Pos(line, j)) = 0
             isEnd   == lk.ok /\ CmpPos(lk.interval.End, Pos(line, j)) = 0
         IN  (IF isStart THEN <<xTag(tag, TRUE)>> ELSE <<>>)
             \o (IF isEnd THEN <<xTag(tag, FALSE)>> ELSE <<>>)
             \o CellTags(t, Tail(tagseq), line, j)

\* step 1 of WordWrapRows: all runes but the line breaks, as extended cells
RECURSIVE FlattenPara(_, _, _, _, _, _, _, _, _)
FlattenPara(cells, t, tagseq, hardLF, softLF, cursorRow, cursorCol, startRow, acc) ==
    IF cells = <<>> THEN acc
    ELSE LET x == Head(cells)
             atCursor == x.i = cursorRow /\ x.j = cursorCol
             isCursor == atCursor \/ acc.cursorToNext
             isLF == (x.c = hardLF /\ x.isLast) \/ x.c = softLF
             acc2 == IF isLF
                     THEN [para |-> acc.para, cursorToNext |-> atCursor]
                     ELSE [para |-> Append(acc.para,
                                      xCell(x.c, isCursor, CellTags(t, tagseq, startRow + x.i, x.j))),
                           cursorToNext |-> FALSE]
         IN  FlattenPara(Tail(cells), t, tagseq, hardLF, softLF, cursorRow, cursorCol, startRow, acc2)

xCellsToRow(cells) ==
    LET cur == {i \in 1..Len(cells) : cells[i].IsCursorCell}
    IN  [row |-> [i \in 1..Len(cells) |-> cells[i].Rune],
         col |-> IF cur = {} THEN -1 ELSE (CHOOSE i \in cur : \A k \in cur : k <= i) - 1]

cellsContainCursor(cells) == \E i \in 1..Len(cells) : cells[i].IsCursorCell

RECURSIVE adjustTagsCell(_, _, _, _)
adjustTagsCell(t, xtags, line, j) ==
    IF xtags = <<>> THEN t
    ELSE LET xt == Head(xtags)
             lk == TagsLookup(t, xt.tag)
             t2 == IF ~lk.ok THEN t
                   ELSE IF xt.isStart
                        THEN TagsUpsert(t, xt.tag, Interval(Pos(line, j), lk.interval.End))
                        ELSE TagsUpsert(t, xt.tag, Interval(lk.interval.Start, Pos(line, j)))
         IN  adjustTagsCell(t2, Tail(xtags), line, j)

RECURSIVE adjustTagsFrom(_, _, _, _, _)
adjustTagsFrom(t, line, j, startRow, lineIdx) ==
    IF j >= Len(line) THEN t
    ELSE adjustTagsFrom(adjustTagsCell(t, At(line, j).tags, startRow + lineIdx, j),
                        line, j + 1, startRow, lineIdx)

adjustTags(t, line, startRow, lineIdx) == adjustTagsFrom(t, line, 0, startRow, lineIdx)

\* one output row of step 2: convert line, relocate its tags, record the cursor
EmitLine(w, line, startRow) ==
    LET cr == xCellsToRow(line)
    IN  [w EXCEPT !.T = adjustTags(w.T, line, startRow, w.lineIdx),
                  !.newCol = IF cr.col >= 0 THEN cr.col ELSE w.newCol,
                  !.result = Append(w.result, cr.row),
                  !.newRow = IF cellsContainCursor(line) THEN w.lineIdx ELSE w.newRow]

\* WrapNext without the carry of the cut-off cells
WrapNext_DropsOverflow(w2, overflow) ==
    [w2 EXCEPT !.line = <<>>, !.handled = TRUE, !.lpos = 0,
               !.lastSpc = 0, !.lineIdx = w2.lineIdx + 1]

\* the end of a wrap in the packing loop: the cut-off cells start the next line
WrapNext(w2, overflow) ==
    IF Len(overflow) > 0
    THEN [w2 EXCEPT !.line = overflow,
                    !.newCol = IF cellsContainCursor(overflow)
                               THEN Len(overflow) - 1 ELSE w2.newCol,
                    !.lpos = Len(overflow), !.handled = FALSE,
                    !.lastSpc = 0, !.lineIdx = w2.lineIdx + 1]
    ELSE [w2 EXCEPT !.line = <<>>, !.handled = TRUE, !.lpos = 0,
                    !.lastSpc = 0, !.lineIdx = w2.lineIdx + 1]

\* the packing loop that emits the whole line and still carries the cut-off cells
WrapStep_KeepsCutCells(w, c, wrapCol, startRow) ==
    LET lpos    == w.lpos + 1
        line    == Append(w.line, c)
        lastSpc == IF IsSpace(c.Rune) THEN lpos ELSE w.lastSpc
        cutPos  == IF lastSpc > 0 THEN Min(lpos, lastSpc) ELSE lpos
        cut     == cutPos >= wrapCol \div 2 /\ cutPos < Len(line)
    IN  IF lpos < wrapCol
        THEN [w EXCEPT !.handled = FALSE, !.lpos = lpos, !.line = line, !.lastSpc = lastSpc]
        ELSE WrapNext(EmitLine(w, line, startRow),
                      IF cut THEN Slice(line, cutPos, Len(line)) ELSE <<>>)

\* the body of the packing loop of step 2 for cell c
WrapStep(w, c, wrapCol, startRow) ==
    LET lpos    == w.lpos + 1
        line    == Append(w.line, c)
        lastSpc == IF IsSpace(c.Rune) THEN lpos ELSE w.lastSpc
        cutPos  == IF lastSpc > 0 THEN Min(lpos, lastSpc) ELSE lpos
        cut     == cutPos >= wrapCol \div 2 /\ cutPos < Len(line)
    IN  IF lpos < wrapCol
        THEN [w EXCEPT !.handled = FALSE, !.lpos = lpos, !.line = line, !.lastSpc = lastSpc]
        ELSE WrapNext(EmitLine(w, IF cut THEN Slice(line, 0, cutPos) ELSE line, startRow),
                      IF cut THEN Slice(line, cutPos, Len(line)) ELSE <<>>)

RECURSIVE WrapLoop(_, _, _, _)
WrapLoop(w, para, wrapCol, startRow) ==
    IF para = <<>> THEN w
    ELSE WrapLoop(WrapStep(w, Head(para), wrapCol, startRow), Tail(para), wrapCol, startRow)

\* after the packing loop: a line still in progress becomes the last row
WrapLast(w1, startRow) == IF ~w1.handled THEN EmitLine(w1, w1.line, startRow) ELSE w1

\* step 3 without the hard delimiter set on the last row
WrapRows_SoftLast(f, w2, softWrap, hardLF, softLF) ==
    LET k   == Len(w2.result)
        res == [i \in 1..k |-> Append(w2.result[i], IF ~softWrap THEN hardLF ELSE softLF)]
    IN  [rows |-> res,
         row  |-> IF f.cursorToNext THEN k - 1 ELSE w2.newRow,
         col  |-> IF f.cursorToNext THEN Len(w2.result[k]) ELSE w2.newCol,
         T    |-> w2.T]

\* step 3 of WordWrapRows: the line endings, and the cursor that sat on the
\* paragraph's dropped last delimiter
WrapRows(f, w2, softWrap, hardLF, softLF) ==
    LET k   == Len(w2.result)
        res == [i \in 1..k |->
                  Append(w2.result[i], IF i = k \/ ~softWrap THEN hardLF ELSE softLF)]
    IN  [rows |-> res,
         row  |-> IF f.cursorToNext THEN k - 1 ELSE w2.newRow,
         col  |-> IF f.cursorToNext THEN Len(w2.result[k]) ELSE w2.newCol,
         T    |-> w2.T]

\* step 2 of WordWrapRows on the flattened paragraph f
WrapPara(t, f, wrapCol, softWrap, hardLF, softLF, cursorCol, startRow) ==
    WrapRows(f,
             WrapLast(WrapLoop([result |-> <<>>, lastSpc |-> 0, line |-> <<>>,
                                newCol |-> cursorCol, newRow |-> 0, handled |-> FALSE,
                                lpos |-> 0, lineIdx |-> 0, T |-> t],
                               f.para, wrapCol, startRow),
                      startRow),
             softWrap, hardLF, softLF)

\* WordWrapRows: the reflowed rows, the cursor's new row and column, and the
\* tag container after the relocation of tag boundaries
WordWrapRows(t, rows, wrapCol, softWrap, hardLF, softLF, cursorRow, cursorCol, startRow, tagseq) ==
    WrapPara(t,
             FlattenPara(RowCells(rows), t, tagseq, hardLF, softLF, cursorRow, cursorCol,
                         startRow, [para |-> <<>>, cursorToNext |-> FALSE]),
             wrapCol, softWrap, hardLF, softLF, cursorCol, startRow)

(***************************************************************************)
(* The editor.  An editor state z is a record of the fields the buffer     *)
(* operations read and write: Rows, caretPos, T (the Tags container),      *)
(* Config, panic (a Go run-time panic ended the program) and unhandled     *)
(* (maybeAdjustTagIntervalForDelete logged its unhandled-case message).    *)
(***************************************************************************)
LastLine(z) == Len(z.Rows) - 1

LastColumn(z, n) == Len(At(z.Rows, n)) - 1

LastPos(z) == Pos(Len(z.Rows) - 1, Len(At(z.Rows, Len(z.Rows) - 1)) - 1)

ToEnd(z, start) == Interval(start, LastPos(z))

RECURSIVE FindParagraphStart(_, _, _)
FindParagraphStart(rows, row, lf) ==
    IF row <= 0 THEN 0
    ELSE IF row > Len(rows) - 1 THEN FindParagraphStart(rows, Len(rows) - 1, lf)
    ELSE LET k == Len(At(rows, row - 1))
         IN  IF k = 0 THEN row
             ELSE IF At(At(rows, row - 1), k - 1) = lf THEN row
             ELSE FindParagraphStart(rows, row - 1, lf)

RECURSIVE FindParagraphEnd(_, _, _)
FindParagraphEnd(rows, row, lf) ==
    IF row >= Len(rows) - 1 THEN row
    ELSE LET k == Len(At(rows, row))
         IN  IF k = 0 THEN row
             ELSE IF At(At(rows, row), k - 1) = lf THEN row
             ELSE FindParagraphEnd(rows, row + 1, lf)

PrevPos(z, pos) ==
    IF pos.Line <= 0 /\ pos.Column <= 0 THEN [pos |-> Pos(0, 0), ok |-> FALSE]
    ELSE IF pos.Column = 0
         THEN [pos |-> Pos(pos.Line - 1, Len(At(z.Rows, pos.Line - 1)) - 1), ok |-> TRUE]
         ELSE [pos |-> Pos(pos.Line, pos.Column - 1), ok |-> TRUE]

NextPos(z, pos) ==
    IF pos.Line >= Len(z.Rows) - 1 /\ pos.Column >= Len(At(z.Rows, pos.Line)) - 1
    THEN [pos |-> LastPos(z), ok |-> FALSE]
    ELSE IF pos.Column >= Len(At(z.Rows, pos.Line)) - 1
         THEN [pos |-> Pos(pos.Line + 1, 0), ok |-> TRUE]
         ELSE [pos |-> Pos(pos.Line, pos.Column + 1), ok |-> TRUE]

CharAt(z, pos) ==
    IF \/ Len(z.Rows) = 0
       \/ pos.Line < 0 \/ pos.Column < 0
       \/ CmpPos(pos, LastPos(z)) > 0
       \/ pos.Column > LastColumn(z, pos.Line)
    THEN [rune |-> 65533, ok |-> FALSE]
    ELSE [rune |-> At(At(z.Rows, pos.Line), pos.Column), ok |-> TRUE]

\* GetText: every row without its last rune, then the last rune unless it is
\* the soft line feed.  Indexing the last rune of an empty row panics.
GetTextRow(row) ==
    Slice(row, 0, Len(row) - 1)
    \o (IF At(row, Len(row) - 1) = SoftLF THEN <<>> ELSE <<At(row, Len(row) - 1)>>)

GetText(rows) ==
    IF \E i \in 1..Len(rows) : Len(rows[i]) = 0
    THEN [panic |-> TRUE, text |-> <<>>]
    ELSE [panic |-> FALSE, text |-> Flatten([i \in 1..Len(rows) |-> GetTextRow(rows[i])])]

(***************************************************************************)
(* SetText and wrapLine                                                    *)
(***************************************************************************)
\* strings.ReplaceAll(s, "\r\n", "\n")
RECURSIVE ReplaceCRLF(_)
ReplaceCRLF(s) ==
    IF s = <<>> THEN <<>>
    ELSE IF Len(s) >= 2 /\ s[1] = 13 /\ s[2] = NewLine
         THEN <<NewLine>> \o ReplaceCRLF(SubSeq(s, 3, Len(s)))
         ELSE <<s[1]>> \o ReplaceCRLF(Tail(s))

\* strings.Split(s, "\n"): acc is the lines completed so far and the line in progress
RECURSIVE SplitLines(_, _, _)
SplitLines(s, done, cur) ==
    IF s = <<>> THEN Append(done, cur)
    ELSE IF Head(s) = NewLine THEN SplitLines(Tail(s), Append(done, cur), <<>>)
    ELSE SplitLines(Tail(s), done, Append(cur, Head(s)))

\* the loop of wrapLine over r[i], i 0-based; w holds lastGap, lineStart, c, hasSpace, lines
RECURSIVE wrapLineLoop(_, _, _, _)
wrapLineLoop(r, i, w, softWrap) ==
    IF i >= Len(r) THEN w
    ELSE LET c == w.c + 1
             sp == IsSpace(At(r, i))
             lastGap0 == IF sp THEN i ELSE w.lastGap
             hasSpace == sp \/ w.hasSpace
         IN  IF c >= Columns
             THEN LET lastGap == IF ~hasSpace THEN i ELSE lastGap0
                      row == Slice(r, w.lineStart, lastGap + 1)
                             \o <<IF softWrap THEN SoftLF ELSE HardLF>>
                  IN  wrapLineLoop(r, i + 1,
                          [lastGap |-> lastGap, lineStart |-> lastGap + 1, c |-> 0,
                           hasSpace |-> FALSE, lines |-> Append(w.lines, row)], softWrap)
             ELSE wrapLineLoop(r, i + 1,
                      [w EXCEPT !.c = c, !.lastGap = lastGap0, !.hasSpace = hasSpace], softWrap)

\* wrapLine: the wrapped rows, then whatever is left from lineStart to the last index
wrapLine(r, softWrap) ==
    LET w == wrapLineLoop(r, 0, [lastGap |-> 0, lineStart |-> 0, c |-> 0,
                                 hasSpace |-> FALSE, lines |-> <<>>], softWrap)
    IN  Append(w.lines, Slice(r, w.lineStart, Len(r)))

RECURSIVE SetTextRows(_, _)
SetTextRows(lines, cfg) ==
    IF lines = <<>> THEN <<>>
    ELSE LET r == Append(Head(lines), HardLF)
         IN  (IF cfg.LineWrap THEN wrapLine(r, cfg.SoftWrap) ELSE <<r>>)
             \o SetTextRows(Tail(lines), cfg)

SetTextOp(z, s) ==
    [z EXCEPT !.T = TagsClear(z.T),
              !.Rows = SetTextRows(SplitLines(ReplaceCRLF(s), <<>>, <<>>), z.Config)]

(***************************************************************************)
(* Caret: maybeHighlightParen, SetCaret, MoveCaret                         *)
(***************************************************************************)
Panic(z) == [z EXCEPT !.panic = TRUE]

RowOK(z, n) == n >= 0 /\ n < Len(z.Rows)

IsLeftParen(c) == c \in {40, 91, 123}

IsRightParen(c) == c \in {41, 93, 125}

IsQuotationMark(c) == c \in {34, 39}

\* a reference no tag of the container holds: the identity of a newly allocated tag
FreshUid(t) ==
    LET known == (DOMAIN t.tags)
                 \cup UNION {{t.names[n][i] : i \in 1..Len(t.names[n])} : n \in DOMAIN t.names}
        uids  == {x.uid : x \in known} \cup {99}
    IN  1 + CHOOSE u \in uids : \A v \in uids : v <= u

MaxIndex(set) ==
    LET idx == {set[i].index : i \in 1..Len(set)} \cup {0}
    IN  CHOOSE m \in idx : \A v \in idx : v <= m

\* CloneTag with the clone at the largest index instead of the one after it
TagsCloneTag_MaxIndex(t, tag) ==
    LET tag2 == IF tag.name \in DOMAIN t.names
                THEN Tag(tag.name, MaxIndex(t.names[tag.name]), FreshUid(t))
                ELSE tag
    IN  [t |-> [t EXCEPT !.names = NamesAdd(t.names, tag2)], tag |-> tag2]

TagsCloneTag(t, tag) ==
    LET tag2 == IF tag.name \in DOMAIN t.names
                THEN Tag(tag.name, MaxIndex(t.names[tag.name]) + 1, FreshUid(t))
                ELSE tag
    IN  [t |-> [t EXCEPT !.names = NamesAdd(t.names, tag2)], tag |-> tag2]

Highlight(t, iv) ==
    LET c == TagsCloneTag(t, HighlightTag)
    IN  TagsAdd(c.t, iv, <<c.tag>>)

MarkErrorParen(t, iv) == TagsAdd(TagsDelete(t, ParenErrorTag), iv, <<ParenErrorTag>>)

\* FindRune(pos, true, searchFunc) with the closure of maybeHighlightParen:
\* open is the closure's openParens counter
RECURSIVE FindMatch(_, _, _, _)
FindMatch(z, pos, match, open) ==
    LET c == CharAt(z, pos)
        open2 == IF IsRightParen(c.rune) THEN open + 1
                 ELSE IF IsLeftParen(c.rune) THEN open - 1 ELSE open
        p == PrevPos(z, pos)
    IN  IF ~c.ok THEN [ok |-> FALSE, pos |-> Pos(0, 0)]
        ELSE IF c.rune = match /\ open2 = 0 THEN [ok |-> TRUE, pos |-> pos]
        ELSE IF ~p.ok THEN [ok |-> FALSE, pos |-> Pos(0, 0)]
        ELSE FindMatch(z, p.pos, match, open2)

MatchOf(r) == IF r = 41 THEN 40 ELSE IF r = 93 THEN 91 ELSE IF r = 125 THEN 123 ELSE r

maybeHighlightParen(z) ==
    LET t1 == TagsDelete(TagsDeleteByName(z.T, HighlightTag.name), ParenErrorTag)
        z1 == [z EXCEPT !.T = t1]
    IN  IF ~z.Config.HighlightParens THEN z1
        ELSE IF z.caretPos.Column = 0 /\ z.caretPos.Line > 0 /\ ~RowOK(z, z.caretPos.Line - 1)
        THEN Panic(z1)
        ELSE LET p == PrevPos(z, z.caretPos)
                 r == CharAt(z, p.pos)
                 current == PrevPos(z, p.pos)
                 l == FindMatch(z, current.pos, MatchOf(r.rune),
                                IF IsRightParen(r.rune) THEN 1 ELSE 0)
             IN  IF ~p.ok \/ ~r.ok THEN z1
                 ELSE IF ~(IsRightParen(r.rune) \/ IsQuotationMark(r.rune)) THEN z1
                 ELSE IF ~current.ok
                 THEN [z1 EXCEPT !.T = MarkErrorParen(t1, Interval(p.pos, p.pos))]
                 ELSE IF ~l.ok
                 THEN [z1 EXCEPT !.T = MarkErrorParen(t1, Interval(p.pos, p.pos))]
                 ELSE IF z.Config.HighlightParenRange
                 THEN [z1 EXCEPT !.T = Highlight(t1, Interval(l.pos, p.pos))]
                 ELSE [z1 EXCEPT !.T = Highlight(Highlight(t1, Interval(p.pos, p.pos)),
                                                 Interval(l.pos, l.pos))]

SetCaretOp(z, pos) ==
    maybeHighlightParen([z EXCEPT !.caretPos = MinPos(pos, LastPos(z))])

\* the switch of MoveCaret: the new caret position; nil when a row index is out of range
MoveCaretPos(z, dir) ==
    LET c == z.caretPos
        up == Pos(Max(c.Line - 1, 0), c.Column)
        down == Pos(Min(c.Line + 1, Len(z.Rows) - 1), c.Column)
    IN  CASE dir = "CaretDown" -> [ok |-> TRUE, pos |-> down]
          [] dir = "CaretUp" -> [ok |-> TRUE, pos |-> up]
          [] dir = "CaretLeft" ->
               IF c.Column = 0
               THEN IF c.Line = 0 THEN [ok |-> TRUE, pos |-> c]
                    ELSE IF ~RowOK(z, up.Line) THEN [ok |-> FALSE, pos |-> c]
                    ELSE [ok |-> TRUE, pos |-> Pos(up.Line, Len(At(z.Rows, up.Line)) - 1)]
               ELSE [ok |-> TRUE, pos |-> Pos(c.Line, c.Column - 1)]
          [] dir = "CaretRight" ->
               IF ~RowOK(z, c.Line) THEN [ok |-> FALSE, pos |-> c]
               ELSE IF c.Column >= Len(At(z.Rows, c.Line)) - 1
               THEN [ok |-> TRUE, pos |-> Pos(Min(c.Line + 1, Len(z.Rows) - 1), 0)]
               ELSE [ok |-> TRUE, pos |-> Pos(c.Line, c.Column + 1)]
          [] dir = "CaretHome" -> [ok |-> TRUE, pos |-> Pos(0, 0)]
          [] dir = "CaretEnd" -> [ok |-> TRUE, pos |-> Pos(LastLine(z), LastColumn(z, LastLine(z)))]
          [] dir = "CaretLineStart" -> [ok |-> TRUE, pos |-> Pos(c.Line, 0)]
          [] dir = "CaretLineEnd" ->
               IF ~RowOK(z, c.Line) THEN [ok |-> FALSE, pos |-> c]
               ELSE [ok |-> TRUE, pos |-> Pos(c.Line, LastColumn(z, c.Line))]
          [] dir = "CaretHalfPageDown" ->
               [ok |-> TRUE, pos |-> Pos(Min(LastLine(z), c.Line + Lines \div 2), c.Column)]
          [] dir = "CaretHalfPageUp" ->
               [ok |-> TRUE, pos |-> Pos(Max(0, c.Line - Lines \div 2), c.Column)]
          [] dir = "CaretPageDown" ->
               [ok |-> TRUE, pos |-> Pos(Min(LastLine(z), c.Line + Lines), c.Column)]
          [] dir = "CaretPageUp" ->
               [ok |-> TRUE, pos |-> Pos(Max(0, c.Line - Lines), c.Column)]

CaretMovements ==
    {"CaretDown", "CaretUp", "CaretLeft", "CaretRight", "CaretHome", "CaretEnd",
     "CaretLineStart", "CaretLineEnd", "CaretHalfPageDown", "CaretHalfPageUp",
     "CaretPageDown", "CaretPageUp"}

\* MoveCaret: the switch, then the deferred function, which calls
\* maybeHighlightParen if Config.DrawCaret was set at the call
MoveCaretOp(z, dir) ==
    LET m == MoveCaretPos(z, dir)
    IN  IF ~m.ok THEN Panic(z)
        ELSE IF z.Config.DrawCaret THEN maybeHighlightParen([z EXCEPT !.caretPos = m.pos])
        ELSE [z EXCEPT !.caretPos = m.pos]

(***************************************************************************)
(* Insert and adjustTagLines                                               *)
(***************************************************************************)
\* the tag loop of Insert with the end of a shifted tag not moved by lenInsert
RECURSIVE InsertShiftTags_StartOnly(_, _, _, _)
InsertShiftTags_StartOnly(t, tagseq, pos, lenInsert) ==
    IF tagseq = <<>> THEN t
    ELSE LET tag == Head(tagseq)
             lk  == TagsLookup(t, tag)
             iv  == lk.interval
             t2  == IF lk.ok /\ iv.Start.Line = pos.Line /\ pos.Column < iv.Start.Column
                    THEN TagsUpsert(t, tag, Interval(Pos(iv.Start.Line, iv.Start.Column + lenInsert),
                                                     MaxPos(iv.End,
                                                            Pos(iv.Start.Line,
                                                                iv.Start.Column + lenInsert))))
                    ELSE t
         IN  InsertShiftTags_StartOnly(t2, Tail(tagseq), pos, lenInsert)

\* the tag loop of Insert: shift a tag that starts on the insert line after pos
RECURSIVE InsertShiftTags(_, _, _, _)
InsertShiftTags(t, tagseq, pos, lenInsert) ==
    IF tagseq = <<>> THEN t
    ELSE LET tag == Head(tagseq)
             lk  == TagsLookup(t, tag)
             iv  == lk.interval
             endPos == IF iv.End.Line = pos.Line
                       THEN Pos(iv.End.Line, iv.End.Column + lenInsert) ELSE iv.End
             t2  == IF lk.ok /\ iv.Start.Line = pos.Line /\ pos.Column < iv.Start.Column
                    THEN TagsUpsert(t, tag, Interval(Pos(iv.Start.Line, iv.Start.Column + lenInsert),
                                                     endPos))
                    ELSE t
         IN  InsertShiftTags(t2, Tail(tagseq), pos, lenInsert)

RECURSIVE adjustTagLines(_, _, _, _)
adjustTagLines(t, tagseq, lineDelta, insertPos) ==
    IF tagseq = <<>> THEN t
    ELSE LET tag == Head(tagseq)
             lk  == TagsLookup(t, tag)
             iv  == lk.interval
             newEnd == Pos(iv.End.Line + lineDelta, iv.End.Column)
             newStart == IF insertPos.Line < iv.Start.Line
                         THEN Pos(iv.Start.Line + lineDelta, iv.Start.Column) ELSE iv.Start
             t2  == IF ~lk.ok \/ insertPos.Line = iv.End.Line THEN t
                    ELSE TagsUpsert(t, tag, Interval(newStart, newEnd))
         IN  adjustTagLines(t2, Tail(tagseq), lineDelta, insertPos)

\* rows startRow..endRow of all replaced by the reflowed rows
SpliceRows(all, startRow, endRow, rows) ==
    Slice(all, 0, startRow) \o rows \o Slice(all, endRow + 1, Len(all))

\* InsertLine with the text put in one column late
InsertLine_OneColumnLate(line, r, col) ==
    IF col + 1 >= Len(line) THEN line \o r
    ELSE Slice(line, 0, col + 1) \o r \o Slice(line, col + 1, Len(line))

InsertLine(line, r, col) ==
    IF col >= Len(line) THEN line \o r
    ELSE IF col = 0 THEN r \o line
    ELSE Slice(line, 0, col) \o r \o Slice(line, col, Len(line))

\* the end of Insert: the caret from the reflow, the rows put back, the tag lines shifted
InsertFinish(z, ww, startRow, endRow, tagseq, pos) ==
    [z EXCEPT !.Rows = SpliceRows(z.Rows, startRow, endRow, ww.rows),
              !.caretPos = Pos(ww.row + startRow, ww.col),
              !.T = IF Len(ww.rows) # endRow - startRow + 1
                    THEN adjustTagLines(ww.T, tagseq, Len(ww.rows) - (endRow - startRow + 1), pos)
                    ELSE ww.T]

\* the reflow of Insert, which Config.LineWrap switches on
InsertWrap(z, t1, rows1, k, pos, startRow, tagseq) ==
    IF z.Config.LineWrap
    THEN WordWrapRows(t1, rows1, Columns, z.Config.SoftWrap, HardLF, SoftLF,
                      k, pos.Column, startRow, tagseq)
    ELSE [rows |-> rows1, row |-> k, col |-> pos.Column, T |-> t1]

\* Insert at a position that is not after the last position
InsertAt(z, r, pos) ==
    LET startRow == FindParagraphStart(z.Rows, pos.Line, HardLF)
        endRow   == FindParagraphEnd(z.Rows, pos.Line, HardLF)
        k        == pos.Line - startRow
        rows0    == Slice(z.Rows, startRow, endRow + 1)
        rows1    == [rows0 EXCEPT ![k + 1] = InsertLine(rows0[k + 1], r, pos.Column)]
        tagseq   == TagsLookupRange(z.T, ToEnd(z, pos))
    IN  IF z.panic THEN z
        ELSE IF ~RowOK(z, pos.Line) \/ pos.Column < 0 THEN Panic(z)
        ELSE InsertFinish(z,
                          InsertWrap(z, InsertShiftTags(z.T, tagseq, pos, Len(r)), rows1, k, pos,
                                     startRow, tagseq),
                          startRow, endRow, tagseq, pos)

InsertOp(z, r, pos) ==
    IF CmpPos(pos, LastPos(z)) > 0
    THEN InsertAt(SetCaretOp(z, LastPos(z)), r, LastPos(z))
    ELSE InsertAt(z, r, pos)

(***************************************************************************)
(* Delete and maybeAdjustTagIntervalForDelete                              *)
(***************************************************************************)
\* AdjustCase with strict comparisons in the tests of branches 3 and 1
AdjustCase_StrictInside(interval, fromTo) ==
    IF CmpPos(fromTo.Start, interval.End) > 0 THEN 4
    ELSE IF CmpPos(fromTo.End, interval.Start) < 0
         THEN (IF fromTo.End.Line < interval.Start.Line THEN 6 ELSE 5)
    ELSE IF CmpPos(fromTo.Start, interval.Start) < 0 /\ CmpPos(fromTo.End, interval.End) > 0
         THEN 3
    ELSE IF CmpPos(fromTo.Start, interval.Start) > 0 /\ CmpPos(fromTo.End, interval.End) < 0
         THEN 1
    ELSE IF CmpPos(fromTo.Start, interval.Start) < 0 THEN 2
    ELSE IF CmpPos(fromTo.Start, interval.Start) >= 0 /\ CmpPos(fromTo.End, interval.End) > 0
         THEN 7
    ELSE 0

\* the branch maybeAdjustTagIntervalForDelete takes, numbered as in its comments;
\* 0 is the fall-through to the "left unhandled" log line
AdjustCase(interval, fromTo) ==
    IF CmpPos(fromTo.Start, interval.End) > 0 THEN 4
    ELSE IF CmpPos(fromTo.End, interval.Start) < 0
         THEN (IF fromTo.End.Line < interval.Start.Line THEN 6 ELSE 5)
    ELSE IF CmpPos(fromTo.Start, interval.Start) <= 0 /\ CmpPos(fromTo.End, interval.End) >= 0
         THEN 3
    ELSE IF CmpPos(fromTo.Start, interval.Start) >= 0 /\ CmpPos(fromTo.End, interval.End) <= 0
         THEN 1
    ELSE IF CmpPos(fromTo.Start, interval.Start) < 0 THEN 2
    ELSE IF CmpPos(fromTo.Start, interval.Start) >= 0 /\ CmpPos(fromTo.End, interval.End) > 0
         THEN 7
    ELSE 0

\* the interval the branches 1, 2, 5, 6 and 7 hand to Tags.Upsert
AdjustedInterval(z, interval, fromTo, case) ==
    LET lineDelta == -(fromTo.End.Line - fromTo.Start.Line)
        columnDelta0 == -(IF fromTo.Start.Line = fromTo.End.Line
                          THEN fromTo.End.Column - fromTo.Start.Column + 1
                          ELSE fromTo.End.Column)
        columnDelta == IF fromTo.End.Line # interval.End.Line THEN 0 ELSE columnDelta0
        diff1 == interval.Start.Column - fromTo.End.Column
        lfRemoved == IF fromTo.Start.Line = fromTo.End.Line
                        /\ fromTo.Start.Column = LastColumn(z, fromTo.Start.Line)
                     THEN -1 ELSE 0
    IN  CASE case = 6 ->
               Interval(Pos(interval.Start.Line + lineDelta, interval.Start.Column),
                        Pos(interval.End.Line + lineDelta, interval.End.Column))
          [] case = 5 ->
               IF interval.Start.Line = interval.End.Line
               THEN Interval(Pos(fromTo.Start.Line, fromTo.Start.Column + diff1 - 1),
                             Pos(fromTo.Start.Line,
                                 fromTo.Start.Column
                                   + (interval.End.Column - interval.Start.Column) + diff1 - 1))
               ELSE Interval(Pos(fromTo.Start.Line, fromTo.Start.Column + diff1 - 1),
                             Pos(fromTo.Start.Line + (interval.End.Line - interval.Start.Line),
                                 interval.End.Column))
          [] case = 1 ->
               Interval(Pos(interval.Start.Line, interval.Start.Column),
                        Pos(interval.End.Line - IntervalLines(fromTo) + 1 + lfRemoved,
                            interval.End.Column + columnDelta))
          [] case = 2 ->
               Interval(fromTo.Start,
                        Pos(interval.End.Line + lineDelta, interval.End.Column + columnDelta))
          [] case = 7 -> Interval(interval.Start, fromTo.Start)

maybeAdjustTagIntervalForDelete(z, tag, interval, fromTo) ==
    LET case == AdjustCase(interval, fromTo)
    IN  IF case = 4 THEN z
        ELSE IF case = 3 THEN [z EXCEPT !.T = TagsDelete(z.T, tag)]
        ELSE IF case = 0 THEN [z EXCEPT !.unhandled = TRUE]
        ELSE IF case = 1 /\ fromTo.Start.Line = fromTo.End.Line /\ ~RowOK(z, fromTo.Start.Line)
        THEN Panic(z)
        ELSE [z EXCEPT !.T = TagsUpsert(z.T, tag, AdjustedInterval(z, interval, fromTo, case))]

\* the tag loop of Delete
RECURSIVE DeleteAdjustTags(_, _, _)
DeleteAdjustTags(z, tagseq, fromTo) ==
    IF tagseq = <<>> \/ z.panic THEN z
    ELSE LET tag == Head(tagseq)
             lk  == TagsLookup(z.T, tag)
             z2  == IF lk.ok THEN maybeAdjustTagIntervalForDelete(z, tag, lk.interval, fromTo)
                    ELSE z
         IN  DeleteAdjustTags(z2, Tail(tagseq), fromTo)

RemoveSelection(z) == [z EXCEPT !.T = TagsDelete(z.T, SelectionTag)]

\* the interval Delete works with: sanitized, and ending before the last position
DeleteRange(z, fromTo0) ==
    LET f == Sanitize(fromTo0, LastPos(z))
    IN  IF CmpPos(f.End, LastPos(z)) = 0
        THEN Interval(f.Start, PrevPos(z, LastPos(z)).pos)
        ELSE f

\* SPECIAL CASE of Delete: the last rune of a row is removed and the next row joined
DeleteSpecial(z, fromTo) ==
    LET l    == fromTo.Start.Line
        row  == At(z.Rows, l)
        row1 == Slice(row, 0, fromTo.Start.Column)
        rows == IF LastLine(z) > l
                THEN Slice(z.Rows, 0, l) \o <<row1 \o At(z.Rows, l + 1)>>
                     \o Slice(z.Rows, l + 2, Len(z.Rows))
                ELSE [z.Rows EXCEPT ![l + 1] = row1]
        z1   == [z EXCEPT !.Rows = rows]
    IN  IF fromTo.Start.Column < 0 THEN Panic(z)
        ELSE IF z.caretPos.Line = l + 1 THEN SetCaretOp(z1, fromTo.Start)
        ELSE z1

\* DeleteNormal keeping the rune at the end of the range
DeleteNormal_KeepsEnd(z, fromTo) ==
    LET s == fromTo.Start
        e == fromTo.End
        underflow == Slice(At(z.Rows, e.Line), e.Column, Len(At(z.Rows, e.Line)))
        row  == Slice(At(z.Rows, s.Line), 0, s.Column) \o underflow
        rows == Slice(z.Rows, 0, s.Line) \o <<row>> \o Slice(z.Rows, e.Line + 1, Len(z.Rows))
        z1   == [z EXCEPT !.Rows = rows]
    IN  IF \/ ~RowOK(z, e.Line) \/ ~RowOK(z, s.Line) \/ s.Line > e.Line
        THEN Panic(z)
        ELSE z1

\* NORMAL CASE of Delete: the rows of the range are removed and the rest of the
\* end row is joined to the start row
DeleteNormal(z, fromTo) ==
    LET s == fromTo.Start
        e == fromTo.End
        underflow == Slice(At(z.Rows, e.Line), e.Column + 1, Len(At(z.Rows, e.Line)))
        row  == Slice(At(z.Rows, s.Line), 0, s.Column) \o underflow
        rows == Slice(z.Rows, 0, s.Line) \o <<row>> \o Slice(z.Rows, e.Line + 1, Len(z.Rows))
        z1   == [z EXCEPT !.Rows = rows]
        c    == z.caretPos
    IN  IF \/ ~RowOK(z, e.Line) \/ ~RowOK(z, s.Line)
           \/ e.Column + 1 < 0 \/ e.Column + 1 > Len(At(z.Rows, e.Line))
           \/ s.Column < 0 \/ s.Column > Len(At(z.Rows, s.Line))
           \/ s.Line > e.Line
        THEN Panic(z)
        ELSE IF CmpPos(e, c) < 0
        THEN IF e.Line = c.Line
             THEN SetCaretOp(z1, Pos(c.Line - (e.Line - s.Line),
                                     s.Column + (c.Column - e.Column) - 1))
             ELSE SetCaretOp(z1, Pos(c.Line - (e.Line - s.Line), c.Column))
        ELSE IF CmpPos(s, c) <= 0 THEN SetCaretOp(z1, s)
        ELSE z1

\* after the row-level removal: a line ending for a start row that has become empty
DeleteFixEmpty(z, l) ==
    IF z.panic THEN z
    ELSE IF ~RowOK(z, l) THEN Panic(z)
    ELSE IF Len(At(z.Rows, l)) = 0
    THEN [z EXCEPT !.Rows[l + 1] = <<IF z.Config.SoftWrap THEN SoftLF ELSE HardLF>>]
    ELSE z

\* the rows of Delete before the reflow: one of the two cases, then the line ending
DeleteRows(z, fromTo) ==
    IF z.panic THEN z
    ELSE IF ~RowOK(z, fromTo.Start.Line) THEN Panic(z)
    ELSE IF fromTo.Start.Line = fromTo.End.Line
            /\ fromTo.Start.Column = LastColumn(z, fromTo.Start.Line)
    THEN DeleteFixEmpty(DeleteSpecial(z, fromTo), fromTo.Start.Line)
    ELSE DeleteFixEmpty(DeleteNormal(z, fromTo), fromTo.Start.Line)

\* the end of Delete: the rows put back, the tag lines shifted, the caret set
DeleteFinish(z1, line, col) ==
    IF ~RowOK(z1, line) THEN Panic(z1)
    ELSE SetCaretOp(z1, Pos(line, Min(col, Len(At(z1.Rows, line)) - 1)))

DeleteSplice(z, ww, paraStart, paraEnd, tagseq, fromTo, rowNumBefore) ==
    DeleteFinish([z EXCEPT !.Rows = SpliceRows(z.Rows, paraStart, paraEnd, ww.rows),
                           !.T = adjustTagLines(ww.T, tagseq,
                                     -(rowNumBefore
                                         - (Len(z.Rows) - (paraEnd - paraStart + 1) + Len(ww.rows))),
                                     fromTo.Start)],
                 ww.row + paraStart, ww.col)

\* the reflow at the end of Delete
DeleteReflow(z, fromTo, rowNumBefore) ==
    LET paraStart == FindParagraphStart(z.Rows, fromTo.Start.Line, HardLF)
        paraEnd   == FindParagraphEnd(z.Rows, fromTo.Start.Line, HardLF)
        tagseq    == TagsLookupRange(z.T, ToEnd(z, fromTo.Start))
    IN  IF z.panic THEN z
        ELSE DeleteSplice(z,
                 WordWrapRows(z.T, Slice(z.Rows, paraStart, paraEnd + 1), Columns,
                              z.Config.SoftWrap, HardLF, SoftLF,
                              z.caretPos.Line - paraStart, z.caretPos.Column, paraStart, tagseq),
                 paraStart, paraEnd, tagseq, fromTo, rowNumBefore)

\* Delete of the interval as sanitized: the tag loop, the rows, the reflow
DeleteSanitized(z, fromTo, rowNumBefore) ==
    DeleteReflow(DeleteRows(DeleteAdjustTags(z, TagsLookupRange(z.T, ToEnd(z, fromTo.Start)),
                                             fromTo),
                            fromTo),
                 fromTo, rowNumBefore)

DeleteOp(z, fromTo) ==
    DeleteSanitized(RemoveSelection(z), DeleteRange(RemoveSelection(z), fromTo), Len(z.Rows))

\* Backspace without the test of PrevPos's second result
Backspace_IgnoresChanged(z) ==
    LET p == PrevPos(z, z.caretPos)
    IN  IF z.caretPos.Column = 0 /\ z.caretPos.Line > 0 /\ ~RowOK(z, z.caretPos.Line - 1)
        THEN Panic(z)
        ELSE DeleteOp(z, Interval(p.pos, p.pos))

Backspace(z) ==
    LET p == PrevPos(z, z.caretPos)
    IN  IF z.caretPos.Column = 0 /\ z.caretPos.Line > 0 /\ ~RowOK(z, z.caretPos.Line - 1)
        THEN Panic(z)
        ELSE IF ~p.ok THEN z
        ELSE DeleteOp(z, Interval(p.pos, p.pos))

Delete1(z) == DeleteOp(z, Interval(z.caretPos, z.caretPos))

\* Return that splits the caret's row without the hard delimiter
ReturnOp_NoDelimiter(z) ==
    LET pos == z.caretPos
        row == At(z.Rows, pos.Line)
    IN  IF pos.Column = 0 \/ ~RowOK(z, pos.Line) \/ pos.Column > Len(row) THEN Panic(z)
        ELSE MoveCaretOp([z EXCEPT !.Rows = Slice(z.Rows, 0, pos.Line)
                                            \o <<Slice(row, 0, pos.Column),
                                                 Slice(row, pos.Column, Len(row))>>
                                            \o Slice(z.Rows, pos.Line + 1, Len(z.Rows))],
                         "CaretRight")

\* Return: a new row before the caret's row, or the caret's row split at the caret
ReturnOp(z) ==
    LET pos == z.caretPos
        t1  == adjustTagLines(z.T, TagsLookupRange(z.T, ToEnd(z, pos)), 1, pos)
        row == At(z.Rows, pos.Line)
    IN  IF pos.Column = 0
        THEN IF pos.Line < 0 \/ pos.Line > Len(z.Rows) THEN Panic(z)
             ELSE MoveCaretOp([z EXCEPT !.T = t1,
                                        !.Rows = Slice(z.Rows, 0, pos.Line) \o <<<<HardLF>>>>
                                                 \o Slice(z.Rows, pos.Line, Len(z.Rows))],
                              "CaretDown")
        ELSE IF ~RowOK(z, pos.Line) \/ pos.Column < 0 \/ pos.Column > Len(row) THEN Panic(z)
        ELSE MoveCaretOp([z EXCEPT !.T = t1,
                                   !.Rows = Slice(z.Rows, 0, pos.Line)
                                            \o <<Append(Slice(row, 0, pos.Column), HardLF),
                                                 Slice(row, pos.Column, Len(row))>>
                                            \o Slice(z.Rows, pos.Line + 1, Len(z.Rows))],
                         "CaretRight")

(***************************************************************************)
(* The editor as a state machine                                           *)
(***************************************************************************)
\* bounds of the model
MaxRunes == 5

MaxRows == 4

MaxText == 2

MaxInsert == 2

\* the caret's column may run below zero by at most this much
MaxBelow == 1

TextRunes == {97, 32, NewLine}

InsertRunes == {97, 32}

RECURSIVE SeqsUpTo(_, _)
SeqsUpTo(S, n) ==
    IF n = 0 THEN {<<>>}
    ELSE LET shorter == SeqsUpTo(S, n - 1)
         IN  shorter \cup {Append(q, x) : q \in shorter, x \in S}

RECURSIVE RuneCount(_)
RuneCount(rows) == IF rows = <<>> THEN 0 ELSE Len(Head(rows)) + RuneCount(Tail(rows))

\* the editor state the variables hold
Z ==
    [Rows |-> Rows, caretPos |-> caretPos, T |-> Tags, Config |-> Config,
     panic |-> panicked, unhandled |-> unhandled]

\* the variables after an operation returned z, with op the record of the call
Becomes(z, op) ==
    /\ Rows' = z.Rows
    /\ caretPos' = z.caretPos
    /\ Tags' = z.T
    /\ Config' = z.Config
    /\ panicked' = z.panic
    /\ unhandled' = z.unhandled
    /\ lineOffset' = lineOffset
    /\ SameGoroutines
    /\ last' = op

\* the positions of existing runes, and the intervals between two of them
ValidPositions(rows) ==
    {p \in [Line : 0..(Len(rows) - 1), Column : 0..Columns, IsLineNumber : {FALSE}] :
        p.Column < Len(At(rows, p.Line))}

ValidIntervals(rows) ==
    {iv \in [Start : ValidPositions(rows), End : ValidPositions(rows)] :
        CmpPos(iv.Start, iv.End) <= 0}

\* NewEditorWithConfig: the fields as constructed, then SetText(" ")
NewEditor(cfg) ==
    SetTextOp([Rows |-> <<>>, caretPos |-> Pos(0, 0), T |-> NewTagContainer, Config |-> cfg,
               panic |-> FALSE, unhandled |-> FALSE], <<32>>)

Configs == [LineWrap : BOOLEAN, SoftWrap : BOOLEAN, HighlightParens : {TRUE},
            HighlightParenRange : {FALSE}, DrawCaret : {TRUE}]

\* the guard that keeps the tag intervals of the model in a finite range: the
\* editing goes on from a state only while no tag has left the document
InDocument(p) ==
    /\ p.Line >= 0 /\ p.Line <= Len(Rows) - 1
    /\ p.Column >= 0 /\ p.Column <= Columns

TagsBounded ==
    \A tag \in DOMAIN Tags.tags :
        InDocument(Tags.tags[tag].Start) /\ InDocument(Tags.tags[tag].End)

Init ==
    LET z == NewEditor(NewConfig)
    IN  /\ Rows = z.Rows
        /\ caretPos = z.caretPos
        /\ Tags = z.T
        /\ Config = z.Config
        /\ panicked = z.panic
        /\ unhandled = z.unhandled
        /\ lineOffset = 0
        /\ NoGoroutines
        /\ last = [op |-> "NewEditor"]

SetText ==
    /\ ~panicked
    /\ \E s \in SeqsUpTo(TextRunes, MaxText) :
          Becomes(SetTextOp(Z, s), [op |-> "SetText"])

Insert ==
    /\ ~panicked
    /\ TagsBounded
    /\ \E r \in SeqsUpTo(InsertRunes, MaxInsert) \ {<<>>}, pos \in ValidPositions(Rows) :
          /\ RuneCount(Rows) + Len(r) <= MaxRunes
          /\ Becomes(InsertOp(Z, r, pos), [op |-> "Insert"])

Delete ==
    /\ ~panicked
    /\ TagsBounded
    /\ \E fromTo \in ValidIntervals(Rows) :
          Becomes(DeleteOp(Z, fromTo), [op |-> "Delete"])

Return ==
    /\ ~panicked
    /\ RuneCount(Rows) + 1 <= MaxRunes
    /\ Len(Rows) + 1 <= MaxRows
    /\ Becomes(ReturnOp(Z), [op |-> "Return"])

BackspaceKey ==
    /\ ~panicked
    /\ Becomes(Backspace(Z), [op |-> "Backspace"])

MoveCaret ==
    /\ ~panicked
    /\ \E dir \in CaretMovements :
          /\ MoveCaretOp(Z, dir).caretPos.Column >= -MaxBelow
          /\ Becomes(MoveCaretOp(Z, dir), [op |-> "MoveCaret"])

SetCaret ==
    /\ ~panicked
    /\ \E pos \in ValidPositions(Rows) :
          Becomes(SetCaretOp(Z, pos), [op |-> "SetCaret"])

Next ==
    \/ SetText
    \/ Insert
    \/ Delete
    \/ Return
    \/ BackspaceKey
    \/ MoveCaret
    \/ SetCaret

Spec == Init /\ [][Next]_vars

(***************************************************************************)
(* The editor with a tag registered by the application: Tags.Add at a      *)
(* valid interval, then Insert and Delete                                  *)
(***************************************************************************)
UserTag == Tag("user", 0, 20)

TagAdd ==
    /\ ~panicked
    /\ UserTag \notin DOMAIN Tags.tags
    /\ \E iv \in ValidIntervals(Rows) :
          Becomes([Z EXCEPT !.T = TagsAdd(Tags, iv, <<UserTag>>)], [op |-> "TagAdd"])

NextTagged ==
    \/ TagAdd
    \/ Insert
    \/ Delete

SpecTagged == Init /\ [][NextTagged]_vars

(***************************************************************************)
(* A TagContainer on its own: the operations of src/tags.go in any order   *)
(***************************************************************************)
\* a tree key holds at most this many values
MaxVals == 2

\* positions run over this many columns of line 0
TagColumns == 2

SomeTags == {MarkTags(0), UserTag}

SomePositions == {Pos(0, c) : c \in 0..(TagColumns - 1)}

SomeIntervals ==
    {iv \in [Start : SomePositions, End : SomePositions] : CmpPos(iv.Start, iv.End) <= 0}

InitTags == Init

TagsBecome(t) ==
    /\ Tags' = t
    /\ UNCHANGED <<Rows, caretPos, Config, panicked, unhandled, lineOffset>>
    /\ SameGoroutines

ValsBounded(t) == \A k \in DOMAIN t.lookup : Len(t.lookup[k]) <= MaxVals

\* tag is in no set of the name index, has no interval and is under no tree key
Unknown(t, tag) ==
    /\ tag \notin DOMAIN t.tags
    /\ \A k \in DOMAIN t.lookup : ~SeqContains(t.lookup[k], tag)
    /\ \A n \in DOMAIN t.names : ~SeqContains(t.names[n], tag)

\* the number of the Add(iv, tag) call in a row of such calls that began with
\* tag unknown to the container: 1 for the first, 2 for the one after it, 0
\* for any other call
CallNumber(t, iv, tag) ==
    IF Unknown(t, tag) THEN 1
    ELSE IF last.op = "Add" /\ last.tag = tag /\ last.iv = iv /\ last.call = 1 THEN 2
    ELSE 0

ContainerAdd ==
    \E iv \in SomeIntervals, tag \in SomeTags :
        /\ ValsBounded(TagsAdd(Tags, iv, <<tag>>))
        /\ TagsBecome(TagsAdd(Tags, iv, <<tag>>))
        /\ last' = [op |-> "Add", tag |-> tag, iv |-> iv, call |-> CallNumber(Tags, iv, tag)]

\* the tags other than tag that the tree holds under the key iv
SharingTags(t, tag, iv) ==
    LET f == TreeFind(t.lookup, iv.Start, iv.End)
    IN  IF f.ok THEN {f.vals[i] : i \in 1..Len(f.vals)} \ {tag} ELSE {}

\* what the container held for tag before a call: its interval and the tags
\* sharing that interval
Before(t, tag) ==
    IF tag \in DOMAIN t.tags
    THEN [registered |-> TRUE, prev |-> t.tags[tag], shared |-> SharingTags(t, tag, t.tags[tag])]
    ELSE [registered |-> FALSE]

ContainerUpsert ==
    \E iv \in SomeIntervals, tag \in SomeTags :
        /\ ValsBounded(TagsUpsert(Tags, tag, iv))
        /\ TagsBecome(TagsUpsert(Tags, tag, iv))
        /\ last' = [op |-> "Upsert", tag |-> tag, iv |-> iv, before |-> Before(Tags, tag)]

ContainerDelete ==
    \E tag \in SomeTags :
        /\ TagsBecome(TagsDelete(Tags, tag))
        /\ last' = [op |-> "Delete"]

ContainerDeleteByName ==
    \E name \in {tag.name : tag \in SomeTags} :
        /\ TagsBecome(TagsDeleteByName(Tags, name))
        /\ last' = [op |-> "DeleteByName"]

ContainerClear ==
    /\ TagsBecome(TagsClear(Tags))
    /\ last' = [op |-> "Clear"]

ContainerSetAllTags ==
    \E iv1 \in SomeIntervals, iv2 \in SomeIntervals, tag1 \in SomeTags, tag2 \in SomeTags :
        /\ ValsBounded(TagsSetAllTags(Tags, <<[Interval |-> iv1, Tag |-> tag1],
                                              [Interval |-> iv2, Tag |-> tag2]>>))
        /\ TagsBecome(TagsSetAllTags(Tags, <<[Interval |-> iv1, Tag |-> tag1],
                                             [Interval |-> iv2, Tag |-> tag2]>>))
        /\ last' = [op |-> "SetAllTags"]

NextTags ==
    \/ ContainerAdd
    \/ ContainerUpsert
    \/ ContainerDelete
    \/ ContainerDeleteByName
    \/ ContainerClear
    \/ ContainerSetAllTags

SpecTags == InitTags /\ [][NextTags]_vars

\* the tags LookupRange(q) returns, and the tags whose Lookup interval intersects q
RangeTags(t, q) ==
    {TagsLookupRange(t, q)[i] : i \in 1..Len(TagsLookupRange(t, q))}

IntersectingTags(t, q) ==
    {tag \in DOMAIN t.tags : Intersects(t.tags[tag], q.Start, q.End)}

\* C4: after any sequence of Add, Upsert, Delete, DeleteByName, Clear and
\* SetAllTags the tree holds each registered tag under exactly its current
\* interval: for every query interval q, LookupRange(q) returns a tag if and
\* only if Lookup(tag) finds an interval that intersects q
C4_TreeMatchesMap ==
    \A q \in SomeIntervals : RangeTags(Tags, q) = IntersectingTags(Tags, q)

IsValidPos(rows, p) ==
    /\ p.Line >= 0 /\ p.Line <= Len(rows) - 1
    /\ p.Column >= 0 /\ p.Column <= Len(At(rows, p.Line)) - 1

\* the intervals the tag store holds lie in the document, start before end
TagIntervalOK(rows, iv) ==
    /\ CmpPos(iv.Start, iv.End) <= 0
    /\ CmpPos(iv.Start, Pos(0, 0)) >= 0
    /\ CmpPos(iv.End, Pos(Len(rows) - 1, Len(At(rows, Len(rows) - 1)) - 1)) <= 0

(***************************************************************************)
(* The tag adjustment of Delete on its own: a document, one tag at a valid *)
(* interval, and one Delete taken up to the row-level removal              *)
(***************************************************************************)
MaxAdjText == 6

\* the documents SetText makes of the texts of letters and line breaks
AdjTexts == SeqsUpTo({97, NewLine}, MaxAdjText)

InitAdj ==
    \E s \in AdjTexts :
        LET z == SetTextOp(NewEditor(NewConfig), s)
        IN  \E iv \in ValidIntervals(z.Rows) :
                /\ Rows = z.Rows
                /\ caretPos = z.caretPos
                /\ Tags = TagsAdd(z.T, iv, <<UserTag>>)
                /\ Config = z.Config
                /\ panicked = z.panic
                /\ unhandled = z.unhandled
                /\ lineOffset = 0
                /\ NoGoroutines
                /\ last = [op |-> "SetText"]

\* Delete(fromTo) from the sanitizing of fromTo to the end of the row-level removal
DeleteUntilReflow(z, fromTo) ==
    DeleteRows(DeleteAdjustTags(z, TagsLookupRange(z.T, ToEnd(z, fromTo.Start)), fromTo), fromTo)

Adjust ==
    /\ last.op = "SetText"
    /\ \E fromTo \in ValidIntervals(Rows) :
          Becomes(DeleteUntilReflow(Z, DeleteRange(Z, fromTo)),
                  [op |-> "Adjust", fromTo |-> DeleteRange(Z, fromTo),
                   interval |-> Tags.tags[UserTag],
                   case |-> AdjustCase(Tags.tags[UserTag], DeleteRange(Z, fromTo))])

NextAdj == Adjust

SpecAdj == InitAdj /\ [][NextAdj]_vars

\* C9: for every pair of normalized intervals (tag interval, deleted interval)
\* maybeAdjustTagIntervalForDelete takes one of its seven case branches; the
\* "left unhandled" fall-through is never reached
C9_OneOfSevenCases ==
    last.op = "Adjust" => (last.case \in 1..7 /\ ~unhandled)

C9_Witness ==
    /\ last.op = "Adjust"
    /\ last.case = 7
    /\ CmpPos(last.fromTo.Start, last.fromTo.End) <= 0
    /\ ~unhandled

\* C10: whenever maybeAdjustTagIntervalForDelete keeps the tag, the interval it
\* stores has start <= end and lies inside the document as it stands after the
\* rows of fromTo are removed
C10_AdjustedInsideDocument ==
    (/\ last.op = "Adjust"
     /\ CmpPos(last.fromTo.Start, last.fromTo.End) <= 0
     /\ ~panicked
     /\ UserTag \in DOMAIN Tags.tags)
        => TagIntervalOK(Rows, Tags.tags[UserTag])

(***************************************************************************)
(* WordWrapRows on its own: paragraph rows, a wrap width and a wrap mode,  *)
(* reflowed and reflowed again                                             *)
(***************************************************************************)
MaxParaRunes == 5

ParaRunes == {97, 32, SoftLF}

\* the runes of a paragraph in one row, or broken into two rows at any place
ParaRows ==
    {<<s>> : s \in SeqsUpTo(ParaRunes, MaxParaRunes)}
        \cup UNION {{<<SubSeq(s, 1, k), SubSeq(s, k + 1, Len(s))>> : k \in 0..Len(s)} :
                       s \in SeqsUpTo(ParaRunes, MaxParaRunes)}

\* the one-paragraph document "hello world" with its hard delimiter
Hello == <<104, 101, 108, 108, 111>>

World == <<119, 111, 114, 108, 100>>

HelloWorld == <<Hello \o <<32>> \o World \o <<HardLF>>>>

\* the arguments of WordWrapRows: the bounded paragraphs at every width and in
\* both modes, and "hello world" at width 5 with soft wrap on
WrapInputs ==
    [R : ParaRows, w : 1..Columns, softWrap : BOOLEAN]
        \cup {[R |-> HelloWorld, w |-> Len(Hello), softWrap |-> TRUE]}

InitWrap ==
    \E in \in WrapInputs :
        /\ Rows = in.R
        /\ caretPos = Pos(0, 0)
        /\ Tags = NewTagContainer
        /\ Config = [NewConfig EXCEPT !.SoftWrap = in.softWrap]
        /\ panicked = FALSE
        /\ unhandled = FALSE
        /\ lineOffset = 0
        /\ NoGoroutines
        /\ last = [op |-> "rows", n |-> 0, w |-> in.w, before |-> in.R]

Reflow ==
    /\ last.n < 2
    /\ Rows' = WordWrapRows(Tags, Rows, last.w, Config.SoftWrap, HardLF, SoftLF,
                            0, 0, 0, <<>>).rows
    /\ last' = [op |-> "WordWrapRows", n |-> last.n + 1, w |-> last.w, before |-> Rows]
    /\ UNCHANGED <<caretPos, Tags, Config, panicked, unhandled, lineOffset>>
    /\ SameGoroutines

NextWrap == Reflow

SpecWrap == InitWrap /\ [][NextWrap]_vars

\* C8: applying WordWrapRows to the rows WordWrapRows returned, with the same
\* width and mode, returns identical rows
C8_ReflowIdempotent ==
    (last.op = "WordWrapRows" /\ last.n = 2) => Rows = last.before

\* a second reflow of a paragraph that the first reflow broke into several rows
C8_Witness ==
    /\ last.op = "WordWrapRows"
    /\ last.n = 2
    /\ Len(Rows) > 1
    /\ Rows = last.before

(***************************************************************************)
(* SetText and GetText on their own, in every wrap configuration           *)
(***************************************************************************)
MaxSetText == 4

\* the pieces a text is made of: a letter, a space, "\n" and "\r\n"
SetTextPieces == {<<97>>, <<32>>, <<NewLine>>, <<13, NewLine>>}

SetTexts == {Flatten(ps) : ps \in SeqsUpTo(SetTextPieces, MaxSetText)}

InitSetText ==
    \E cfg \in Configs :
        LET z == NewEditor(cfg)
        IN  /\ Rows = z.Rows
            /\ caretPos = z.caretPos
            /\ Tags = z.T
            /\ Config = z.Config
            /\ panicked = z.panic
            /\ unhandled = z.unhandled
            /\ lineOffset = 0
            /\ NoGoroutines
            /\ last = [op |-> "NewEditor"]

TextSet ==
    /\ ~panicked
    /\ \E s \in SetTexts :
          Becomes(SetTextOp(Z, s), [op |-> "SetText", s |-> s])

NextSetText == TextSet

SpecSetText == InitSetText /\ [][NextSetText]_vars

\* the lines of s, each followed by one hard delimiter
LinesOf(s) == SplitLines(ReplaceCRLF(s), <<>>, <<>>)

TextOfLines(lines) == Flatten([i \in 1..Len(lines) |-> Append(lines[i], HardLF)])

\* C7: for any string s and any wrap width, with line wrap on or off,
\* SetText(s) followed by GetText() returns the lines of s, each followed by
\* one hard delimiter, and the result holds no soft delimiter rune
C7_SetTextGetText ==
    last.op = "SetText" =>
        /\ ~GetText(Rows).panic
        /\ GetText(Rows).text = TextOfLines(LinesOf(last.s))
        /\ ~SeqContains(GetText(Rows).text, SoftLF)

(***************************************************************************)
(* Insert and Delete against the text GetText returns                      *)
(***************************************************************************)
\* GetText without the runes at the positions of fromTo
RECURSIVE KeptRunes(_, _, _, _)
KeptRunes(rows, fromTo, i, j) ==
    IF i >= Len(rows) THEN <<>>
    ELSE IF j >= Len(At(rows, i)) THEN KeptRunes(rows, fromTo, i + 1, 0)
    ELSE (IF \/ Contains(fromTo, Pos(i, j))
             \/ (j = Len(At(rows, i)) - 1 /\ At(At(rows, i), j) = SoftLF)
          THEN <<>> ELSE <<At(At(rows, i), j)>>)
         \o KeptRunes(rows, fromTo, i, j + 1)

\* the number of runes at the positions of fromTo
RunesIn(rows, fromTo) == Cardinality({p \in ValidPositions(rows) : Contains(fromTo, p)})

\* the position of the n-th rune of the text after the one at p: the row-final
\* soft delimiters are not runes of the text
RECURSIVE Advance(_, _, _)
Advance(rows, p, n) ==
    IF n = 0 THEN p
    ELSE IF p.Column + 1 < Len(At(rows, p.Line)) - 1
         THEN Advance(rows, Pos(p.Line, p.Column + 1), n - 1)
    ELSE IF p.Column + 1 = Len(At(rows, p.Line)) - 1
            /\ At(At(rows, p.Line), p.Column + 1) # SoftLF
         THEN Advance(rows, Pos(p.Line, p.Column + 1), n - 1)
    ELSE IF p.Line + 1 < Len(rows) THEN Advance(rows, Pos(p.Line + 1, 0), n - 1)
    ELSE p

MaxEditText == 3

\* the inserted runes differ from the runes of the texts set
EditLetters == {98}

MaxEditRunes == 6

\* the text is set once, on the editor as constructed
EditSetText ==
    /\ ~panicked
    /\ last.op = "NewEditor"
    /\ \E s \in SeqsUpTo(TextRunes, MaxEditText) :
          Becomes(SetTextOp(Z, s), [op |-> "SetText"])

EditInsert ==
    /\ ~panicked
    /\ ~GetText(Rows).panic
    /\ \E r \in SeqsUpTo(EditLetters, MaxInsert) \ {<<>>},
          pos \in ValidPositions(Rows) :
          /\ RuneCount(Rows) + Len(r) <= MaxEditRunes
          /\ Becomes(InsertOp(Z, r, pos),
                     [op |-> "Insert", before |-> GetText(Rows).text, n |-> Len(r)])

EditDeleteInserted ==
    /\ ~panicked
    /\ last.op = "Insert"
    /\ Becomes(DeleteOp(Z, Interval(caretPos, Advance(Rows, caretPos, last.n - 1))),
               [op |-> "DeleteInserted", before |-> last.before, n |-> last.n])

EditDelete ==
    /\ ~panicked
    /\ ~GetText(Rows).panic
    /\ \E fromTo \in ValidIntervals(Rows) :
          /\ CmpPos(fromTo.End, LastPos(Z)) < 0
          /\ Becomes(DeleteOp(Z, fromTo),
                     [op |-> "Delete", expected |-> KeptRunes(Rows, fromTo, 0, 0),
                      removed |-> RunesIn(Rows, fromTo),
                      lines |-> IntervalLines(fromTo)])

NextEdit ==
    \/ EditSetText
    \/ EditInsert
    \/ EditDeleteInserted
    \/ EditDelete

SpecEdit == InitSetText /\ [][NextEdit]_vars

DeleteRemovedInterval ==
    /\ ~panicked
    /\ ~GetText(Rows).panic
    /\ GetText(Rows).text = last.expected

\* C5 as stated: for a valid interval fromTo that ends before the last
\* position, Delete(fromTo) leaves GetText() equal to GetText() before without
\* the runes at the positions of fromTo, the other runes in their order
C5_DeleteRemovesInterval_AnyWrap == last.op = "Delete" => DeleteRemovedInterval

\* C5, amended: with Config.SoftWrap set, for a valid interval fromTo that ends
\* before the last position, Delete(fromTo) leaves GetText() equal to GetText()
\* before without the runes at the positions of fromTo, the other runes in
\* their order
C5_DeleteRemovesInterval ==
    (last.op = "Delete" /\ Config.SoftWrap) => DeleteRemovedInterval

C5_Witness ==
    /\ last.op = "Delete"
    /\ Config.SoftWrap
    /\ last.removed >= 2
    /\ last.lines >= 2
    /\ Len(Rows) > 1
    /\ ~GetText(Rows).panic
    /\ GetText(Rows).text = last.expected

TextAsBeforeInsert ==
    /\ ~panicked
    /\ ~GetText(Rows).panic
    /\ GetText(Rows).text = last.before

\* C6 as stated: Insert(x, p) of a non-empty x without delimiter runes, followed
\* by Delete of the interval covering the inserted runes, gives back the text
\* GetText() returned before the Insert
C6_InsertDeleteRoundTrip_AnyWrap == last.op = "DeleteInserted" => TextAsBeforeInsert

\* C6, amended: with Config.SoftWrap set, Insert(x, p) of a non-empty x without
\* delimiter runes, followed by Delete of the interval covering the inserted
\* runes, gives back the text GetText() returned before the Insert
C6_InsertDeleteRoundTrip ==
    (last.op = "DeleteInserted" /\ Config.SoftWrap) => TextAsBeforeInsert

C6_Witness ==
    /\ last.op = "DeleteInserted"
    /\ Config.SoftWrap
    /\ last.n = 2
    /\ Len(Rows) > 1
    /\ ~GetText(Rows).panic
    /\ GetText(Rows).text = last.before

(***************************************************************************)
(* Properties of the buffer                                                *)
(***************************************************************************)
\* C1: after any sequence of Insert and Delete on a buffer whose tags were
\* registered at valid intervals, every registered tag has an interval with
\* start <= end, start >= (0,0) and end <= LastPos()
C1_TagIntervalsValid ==
    ~panicked => \A tag \in DOMAIN Tags.tags : TagIntervalOK(Rows, Tags.tags[tag])

\* C2: after any sequence of SetText, Insert, Delete and Return every row is
\* non-empty and ends with a delimiter rune, and the last row ends with the
\* hard delimiter
C2_RowsDelimited ==
    ~panicked =>
        /\ \A i \in 1..Len(Rows) :
              /\ Len(Rows[i]) > 0
              /\ Rows[i][Len(Rows[i])] \in {HardLF, SoftLF}
        /\ Len(Rows) > 0
        /\ Len(Rows[Len(Rows)]) > 0
        /\ Rows[Len(Rows)][Len(Rows[Len(Rows)])] = HardLF

\* C3: after any sequence of SetText, Insert, Delete, Return, Backspace,
\* MoveCaret and SetCaret the caret is a valid position:
\* 0 <= Line <= LastLine() and 0 <= Column <= LastColumn(Line)
C3_CaretValid == ~panicked => IsValidPos(Rows, caretPos)

(***************************************************************************)
(* The functions of src/positions.go on their own                          *)
(***************************************************************************)
\* lines and columns of the positions run from -MaxBelow to MaxCoord
MaxCoord == 2

AnyPositions == {Pos(l, c) : l \in (0 - MaxBelow)..MaxCoord, c \in (0 - MaxBelow)..MaxCoord}

DocPositions == {Pos(l, c) : l \in 0..MaxCoord, c \in 0..MaxCoord}

AnyIntervals == [Start : AnyPositions, End : AnyPositions]

NormalIntervals ==
    {iv \in [Start : DocPositions, End : DocPositions] : CmpPos(iv.Start, iv.End) <= 0}

\* the positions of the grid, in the text and in the line number display
GridPositions == [Line : 0..MaxCoord, Column : 0..MaxCoord, IsLineNumber : BOOLEAN]

\* the editor as constructed, and the arguments of the call to come
InitPositions ==
    /\ Rows = NewEditor(NewConfig).Rows
    /\ caretPos = NewEditor(NewConfig).caretPos
    /\ Tags = NewEditor(NewConfig).T
    /\ Config = NewConfig
    /\ panicked = FALSE
    /\ unhandled = FALSE
    /\ lineOffset = 0
    /\ NoGoroutines
    /\ \/ \E c \in AnyIntervals, lastPos \in DocPositions :
             last = [op |-> "c", c |-> c, lastPos |-> lastPos]
       \/ \E c1 \in NormalIntervals, c2 \in NormalIntervals :
             last = [op |-> "c1c2", c1 |-> c1, c2 |-> c2]
       \/ \E a \in GridPositions, b \in GridPositions :
             last = [op |-> "ab", a |-> a, b |-> b]

CallSanitize ==
    /\ last.op = "c"
    /\ last' = [op |-> "Sanitize", c |-> last.c, lastPos |-> last.lastPos,
                r |-> Sanitize(last.c, last.lastPos)]
    /\ UNCHANGED <<Rows, caretPos, Tags, Config, panicked, unhandled, lineOffset>>
    /\ SameGoroutines

CallOverlapping ==
    /\ last.op = "c1c2"
    /\ last' = [op |-> "Overlapping", c1 |-> last.c1, c2 |-> last.c2,
                r |-> Overlapping(last.c1, last.c2)]
    /\ UNCHANGED <<Rows, caretPos, Tags, Config, panicked, unhandled, lineOffset>>
    /\ SameGoroutines

\* CmpPos called with its arguments in both orders
CallCmpPos ==
    /\ last.op = "ab"
    /\ last' = [op |-> "CmpPos", a |-> last.a, b |-> last.b,
                ab |-> CmpPos(last.a, last.b), ba |-> CmpPos(last.b, last.a)]
    /\ UNCHANGED <<Rows, caretPos, Tags, Config, panicked, unhandled, lineOffset>>
    /\ SameGoroutines

NextPositions ==
    \/ CallSanitize
    \/ CallOverlapping
    \/ CallCmpPos

SpecPositions == InitPositions /\ [][NextPositions]_vars

\* C18: for every interval c, its ends in any order, negative or beyond the
\* document, and every valid lastPos, c.Sanitize(lastPos) returns an interval
\* with (0,0) <= start <= end <= lastPos under CmpPos
C18_SanitizeInBounds ==
    last.op = "Sanitize" =>
        /\ CmpPos(Pos(0, 0), last.r.Start) <= 0
        /\ CmpPos(last.r.Start, last.r.End) <= 0
        /\ CmpPos(last.r.End, last.lastPos) <= 0

\* C19: for all normalized intervals c1 and c2, c1.Overlapping(c2) is true
\* exactly when the two share a position, that is when c1.OutsideOf(c2) is false
C19_OverlappingIffNotOutside ==
    last.op = "Overlapping" =>
        /\ last.r <=> ~OutsideOf(last.c1, last.c2)
        /\ last.r <=> (\E p \in DocPositions : Contains(last.c1, p) /\ Contains(last.c2, p))

(***************************************************************************)
(* Upsert on a registered tag                                              *)
(***************************************************************************)
\* C20: after Upsert(tag, iv) on a registered tag, Lookup(tag) returns iv,
\* LookupRange finds the tag for the queries that intersect iv and not for the
\* queries that intersect only its previous interval, and the other tags that
\* shared the previous interval are still found there
C20_UpsertMovesTag ==
    (last.op = "Upsert" /\ last.before.registered) =>
        /\ TagsLookup(Tags, last.tag) = [ok |-> TRUE, interval |-> last.iv]
        /\ \A q \in SomeIntervals :
              /\ Intersects(last.iv, q.Start, q.End) => last.tag \in RangeTags(Tags, q)
              /\ (Intersects(last.before.prev, q.Start, q.End)
                  /\ ~Intersects(last.iv, q.Start, q.End)) => last.tag \notin RangeTags(Tags, q)
        /\ last.before.shared \subseteq RangeTags(Tags, last.before.prev)

(***************************************************************************)
(* The reflow of "hello world"                                             *)
(***************************************************************************)
\* C13: reflowing the one-paragraph document "hello world" + hard delimiter at
\* wrap width 5 with soft wrap on yields exactly two rows, "hello" + soft
\* delimiter and "world" + hard delimiter
C13_HelloWorldBreaksAtSpace ==
    (last.op = "WordWrapRows" /\ last.n = 1 /\ last.before = HelloWorld
     /\ last.w = Len(Hello) /\ Config.SoftWrap)
        => Rows = <<Append(Hello, SoftLF), Append(World, HardLF)>>

(***************************************************************************)
(* Selection, Cut and Backspace on a buffer with tags                      *)
(***************************************************************************)
\* Select(fromTo)
SelectOp(z, fromTo) ==
    [z EXCEPT !.T = TagsUpsert(z.T, SelectionTag, Sanitize(fromTo, LastPos(z)))]

\* SelectAll
SelectAllOp(z) ==
    [z EXCEPT !.T = TagsUpsert(z.T, SelectionTag, Interval(Pos(0, 0), LastPos(z)))]

\* Cut: Delete of the selection, nothing without one
CutOp(z) ==
    IF TagsLookup(z.T, SelectionTag).ok
    THEN DeleteOp(z, TagsLookup(z.T, SelectionTag).interval)
    ELSE z

SelSetText ==
    /\ ~panicked
    /\ \E s \in SeqsUpTo(TextRunes, MaxText) :
          Becomes(SetTextOp(Z, s), [op |-> "SetText"])

SelTagAdd ==
    /\ ~panicked
    /\ UserTag \notin DOMAIN Tags.tags
    /\ \E iv \in ValidIntervals(Rows) :
          Becomes([Z EXCEPT !.T = TagsAdd(Tags, iv, <<UserTag>>)], [op |-> "Add"])

SelSelect ==
    /\ ~panicked
    /\ \E iv \in ValidIntervals(Rows) :
          Becomes(SelectOp(Z, iv), [op |-> "Select"])

SelSelectAll ==
    /\ ~panicked
    /\ Becomes(SelectAllOp(Z), [op |-> "SelectAll"])

SelCut ==
    /\ ~panicked
    /\ TagsBounded
    /\ Becomes(CutOp(Z), [op |-> "Cut", afterSelectAll |-> last.op = "SelectAll"])

SelSetCaret ==
    /\ ~panicked
    /\ \E pos \in ValidPositions(Rows) :
          Becomes(SetCaretOp(Z, pos), [op |-> "SetCaret"])

\* Backspace; what the editor held is kept for a call with the caret at (0,0)
SelBackspace ==
    /\ ~panicked
    /\ TagsBounded
    /\ Becomes(Backspace(Z),
               [op |-> "Backspace", at |-> caretPos,
                before |-> IF caretPos = Pos(0, 0) THEN <<Rows, Tags>> ELSE <<>>])

NextSelect ==
    \/ SelSetText
    \/ SelTagAdd
    \/ SelSelect
    \/ SelSelectAll
    \/ SelCut
    \/ SelSetCaret
    \/ SelBackspace

SpecSelect == Init /\ [][NextSelect]_vars

\* C14: for any buffer content and any registered tags, SelectAll followed by
\* the deletion of the selection leaves Rows equal to a single row holding only
\* the hard delimiter and leaves no tag registered
C14_SelectAllCutEmpties ==
    (last.op = "Cut" /\ last.afterSelectAll) =>
        /\ ~panicked
        /\ Rows = <<<<HardLF>>>>
        /\ DOMAIN Tags.tags = {}

\* C15: Backspace with the caret at (0,0) leaves Rows, every tag interval, the
\* selection included, and the caret position unchanged
C15_BackspaceAtOriginNoOp ==
    (last.op = "Backspace" /\ last.at = Pos(0, 0)) =>
        /\ ~panicked
        /\ Rows = last.before[1]
        /\ Tags = last.before[2]
        /\ caretPos = Pos(0, 0)

C15_Witness ==
    /\ last.op = "Backspace"
    /\ last.at = Pos(0, 0)
    /\ Len(Rows) > 1
    /\ {SelectionTag, UserTag} \subseteq DOMAIN Tags.tags
    /\ Rows = last.before[1]
    /\ Tags = last.before[2]
    /\ caretPos = Pos(0, 0)


(***************************************************************************)
(* Insert into a document that holds a tag of the application: the text is *)
(* set, the tag is added at a valid interval, runes are inserted           *)
(***************************************************************************)
MaxAnchorText == 4

MaxAnchorInsert == 3

\* the positions of the runes of rows, at any column
RunePositions(rows) ==
    {p \in [Line : 0..(Len(rows) - 1), Column : 0..MaxAnchorText, IsLineNumber : {FALSE}] :
        p.Column < Len(At(rows, p.Line))}

RuneIntervals(rows) ==
    {iv \in [Start : RunePositions(rows), End : RunePositions(rows)] :
        CmpPos(iv.Start, iv.End) <= 0}

\* rows with r put into row pos.Line at pos.Column and no row re-wrapped
RowsWithInserted(rows, r, pos) ==
    [rows EXCEPT ![pos.Line + 1] = InsertLine(rows[pos.Line + 1], r, pos.Column)]

AnchorSetText ==
    /\ ~panicked
    /\ last.op = "NewEditor"
    /\ \E s \in SeqsUpTo(TextRunes, MaxAnchorText) :
          Becomes(SetTextOp(Z, s), [op |-> "SetText"])

AnchorTagAdd ==
    /\ ~panicked
    /\ UserTag \notin DOMAIN Tags.tags
    /\ \E iv \in RuneIntervals(Rows) :
          Becomes([Z EXCEPT !.T = TagsAdd(Tags, iv, <<UserTag>>)], [op |-> "TagAdd"])

\* the variables after Insert(r, pos) returned z2
AnchorInserted(z2, r, pos) ==
    Becomes(z2, [op |-> "Insert", pos |-> pos, k |-> Len(r),
                 before |-> TagsLookup(Tags, UserTag).interval,
                 plain |-> z2.Rows = RowsWithInserted(Rows, r, pos)])

AnchorInsert ==
    /\ ~panicked
    /\ last.op = "TagAdd"
    /\ \E r \in SeqsUpTo(EditLetters, MaxAnchorInsert) \ {<<>>}, pos \in RunePositions(Rows) :
          AnchorInserted(InsertOp(Z, r, pos), r, pos)

NextAnchor ==
    \/ AnchorSetText
    \/ AnchorTagAdd
    \/ AnchorInsert

SpecAnchor == InitSetText /\ [][NextAnchor]_vars

\* the endpoint that was at p is at the same row, k columns on, if p was on
\* the row of pos after the column of pos
Shifted(p, q, pos, k) ==
    (p.Line = pos.Line /\ p.Column > pos.Column) => q = Pos(p.Line, p.Column + k)

\* C11: after Insert of k runes at pos into a row that does not need
\* re-wrapping, every endpoint of a tag that was on row pos.Line at a column
\* greater than pos.Column is on the same row at that column plus k, wherever
\* the other endpoint of the tag lies
C11_EndpointsShiftOnInsert ==
    (last.op = "Insert" /\ last.plain) =>
        /\ ~panicked
        /\ TagsLookup(Tags, UserTag).ok
        /\ Shifted(last.before.Start, TagsLookup(Tags, UserTag).interval.Start, last.pos, last.k)
        /\ Shifted(last.before.End, TagsLookup(Tags, UserTag).interval.End, last.pos, last.k)

\* C12: a tag on a single row at columns a..b is at columns a+k..b+k of the
\* same row after k runes were inserted on that row at a column c < a, the row
\* not re-wrapping
C12_SingleRowTagShifts ==
    (/\ last.op = "Insert"
     /\ last.plain
     /\ last.before.Start.Line = last.pos.Line
     /\ last.before.End.Line = last.pos.Line
     /\ last.pos.Column < last.before.Start.Column) =>
        /\ ~panicked
        /\ TagsLookup(Tags, UserTag).ok
        /\ TagsLookup(Tags, UserTag).interval =
              Interval(Pos(last.pos.Line, last.before.Start.Column + last.k),
                       Pos(last.pos.Line, last.before.End.Column + last.k))

\* the example of C12: a tag at columns 2-4, three runes inserted at column 0
C12_Witness ==
    /\ last.op = "Insert"
    /\ last.plain
    /\ last.pos = Pos(0, 0)
    /\ last.k = 3
    /\ last.before = Interval(Pos(0, 2), Pos(0, 4))
    /\ TagsLookup(Tags, UserTag).interval = Interval(Pos(0, 5), Pos(0, 7))


(***************************************************************************)
(* The caret in a text with brackets: SetText, then SetCaret and MoveCaret *)
(* in any order, in the configurations of HighlightParens and DrawCaret    *)
(***************************************************************************)
MaxParenText == 4

\* ( ) [ a
ParenRunes == {40, 41, 91, 97}

\* "(foo (bar))"
FooBar == <<40, 102, 111, 111, 32, 40, 98, 97, 114, 41, 41>>

ParenTexts == SeqsUpTo(ParenRunes, MaxParenText) \cup {FooBar}

ParenConfigs == [LineWrap : BOOLEAN, SoftWrap : {TRUE}, HighlightParens : BOOLEAN,
                 HighlightParenRange : {FALSE}, DrawCaret : BOOLEAN]

AllPositions(rows) ==
    UNION {{Pos(i, j) : j \in 0..(Len(At(rows, i)) - 1)} : i \in 0..(Len(rows) - 1)}

InitParen ==
    \E cfg \in ParenConfigs :
        LET z == NewEditor(cfg)
        IN  /\ Rows = z.Rows
            /\ caretPos = z.caretPos
            /\ Tags = z.T
            /\ Config = z.Config
            /\ panicked = z.panic
            /\ unhandled = z.unhandled
            /\ lineOffset = 0
            /\ NoGoroutines
            /\ last = [op |-> "NewEditor"]

ParenSetText ==
    /\ ~panicked
    /\ last.op = "NewEditor"
    /\ \E s \in ParenTexts :
          Becomes(SetTextOp(Z, s), [op |-> "SetText"])

ParenSetCaret ==
    /\ ~panicked
    /\ \E pos \in AllPositions(Rows) :
          Becomes(SetCaretOp(Z, pos), [op |-> "SetCaret"])

ParenMoveCaret ==
    /\ ~panicked
    /\ \E dir \in CaretMovements :
          /\ MoveCaretOp(Z, dir).caretPos.Column >= -MaxBelow
          /\ Becomes(MoveCaretOp(Z, dir), [op |-> "MoveCaret"])

NextParen ==
    \/ ParenSetText
    \/ ParenSetCaret
    \/ ParenMoveCaret

SpecParen == InitParen /\ [][NextParen]_vars

\* the intervals at which the store holds a tag named name
IntervalsNamed(t, name) == {t.tags[tag] : tag \in {x \in DOMAIN t.tags : x.name = name}}

\* the nearest opener of the kind of closer at or before pos at which the
\* depth, counted over the brackets of that kind only, is zero
RECURSIVE SameKindOpener(_, _, _, _)
SameKindOpener(z, pos, closer, depth) ==
    LET c == CharAt(z, pos)
        d == IF c.rune = closer THEN depth + 1
             ELSE IF c.rune = MatchOf(closer) THEN depth - 1 ELSE depth
        p == PrevPos(z, pos)
    IN  IF ~c.ok THEN [ok |-> FALSE, pos |-> Pos(0, 0)]
        ELSE IF c.rune = MatchOf(closer) /\ d = 0 THEN [ok |-> TRUE, pos |-> pos]
        ELSE IF ~p.ok THEN [ok |-> FALSE, pos |-> Pos(0, 0)]
        ELSE SameKindOpener(z, p.pos, closer, d)

\* the closer left of the caret and its opener, if there are both
CloserAndOpener(z) ==
    LET p == PrevPos(z, z.caretPos)
        r == CharAt(z, p.pos)
        current == PrevPos(z, p.pos)
        l == SameKindOpener(z, current.pos, r.rune, 1)
    IN  IF p.ok /\ r.ok /\ IsRightParen(r.rune) /\ current.ok /\ l.ok
        THEN [ok |-> TRUE, closer |-> p.pos, opener |-> l.pos]
        ELSE [ok |-> FALSE, closer |-> Pos(0, 0), opener |-> Pos(0, 0)]

\* C16: when the rune left of the caret is a closing bracket,
\* maybeHighlightParen highlights that closer and the nearest preceding opener
\* of the same kind at which the nesting depth, counted over brackets of that
\* kind only, returns to zero
C16_HighlightsMatchingOpener ==
    (/\ last.op = "SetCaret"
     /\ Config.HighlightParens
     /\ CloserAndOpener(Z).ok) =>
        /\ ~panicked
        /\ IntervalsNamed(Tags, HighlightTag.name) =
              {Interval(CloserAndOpener(Z).closer, CloserAndOpener(Z).closer),
               Interval(CloserAndOpener(Z).opener, CloserAndOpener(Z).opener)}

\* the highlight and paren-error tags maybeHighlightParen registers at the
\* caret position of z in a store that holds none
TagsForCaret(z) ==
    LET t == maybeHighlightParen([z EXCEPT !.T = NewTagContainer]).T
    IN  [highlight |-> IntervalsNamed(t, HighlightTag.name),
         error |-> IntervalsNamed(t, ParenErrorTag.name)]

\* C17: after every MoveCaret or SetCaret call, in every configuration, the
\* store holds highlight tags and a paren-error tag only for the match found
\* at the current caret position, none created for an earlier position
C17_NoStaleHighlight ==
    (last.op \in {"SetCaret", "MoveCaret"} /\ ~panicked) =>
        /\ IntervalsNamed(Tags, HighlightTag.name) \subseteq TagsForCaret(Z).highlight
        /\ IntervalsNamed(Tags, ParenErrorTag.name) \subseteq TagsForCaret(Z).error


(***************************************************************************)
(* Add called twice for one tag and one interval                           *)
(***************************************************************************)
\* the number of times v occurs in the sequence s
Occurrences(s, v) == Cardinality({i \in 1..Len(s) : s[i] = v})

\* what TagsByName(name) lists: the values of the set, none if there is no set
TagsByName(t, name) == IF name \in DOMAIN t.names THEN t.names[name] ELSE <<>>

\* C21: Add(iv, t) called a second time for an already registered tag t with
\* the same interval leaves the store as after the first call: LookupRange
\* returns t exactly once for an intersecting query and TagsByName lists t
\* exactly once
C21_AddIdempotent ==
    (last.op = "Add" /\ last.call = 2) =>
        /\ TagsLookup(Tags, last.tag) = [ok |-> TRUE, interval |-> last.iv]
        /\ \A q \in SomeIntervals :
              Intersects(last.iv, q.Start, q.End) =>
                  Occurrences(TagsLookupRange(Tags, q), last.tag) = 1
        /\ Occurrences(TagsByName(Tags, last.tag.name), last.tag) = 1


(***************************************************************************)
(* A TagContainer whose tags come from CloneTag: templates are cloned, the *)
(* known tags are given intervals, names are deleted                       *)
(***************************************************************************)
\* the name index lists at most this many tags in all
MaxKnown == 3

\* the clones have at most this index, and as many references are allocated
MaxClones == 2

Templates == {HighlightTag, UserTag}

\* the tags the name index lists
KnownTags(t) == UNION {{t.names[n][i] : i \in 1..Len(t.names[n])} : n \in DOMAIN t.names}

CloneCloneTag ==
    \E template \in Templates :
        /\ Cardinality(KnownTags(TagsCloneTag(Tags, template).t)) <= MaxKnown
        /\ TagsCloneTag(Tags, template).tag.index <= MaxClones
        /\ FreshUid(Tags) < FreshUid(NewTagContainer) + MaxClones
        /\ TagsBecome(TagsCloneTag(Tags, template).t)
        /\ last' = [op |-> "CloneTag", template |-> template,
                    returned |-> TagsCloneTag(Tags, template).tag,
                    listed |-> template.name \in DOMAIN Tags.names,
                    maxIndex |-> MaxIndex(TagsByName(Tags, template.name))]

\* Add gives an interval to a tag that has none
CloneAdd ==
    \E iv \in SomeIntervals, tag \in (KnownTags(Tags) \cup Templates) \ DOMAIN Tags.tags :
        /\ ValsBounded(TagsAdd(Tags, iv, <<tag>>))
        /\ Cardinality(KnownTags(TagsAdd(Tags, iv, <<tag>>))) <= MaxKnown
        /\ TagsBecome(TagsAdd(Tags, iv, <<tag>>))
        /\ last' = [op |-> "Add"]

CloneUpsert ==
    \E iv \in SomeIntervals, tag \in KnownTags(Tags) \cup Templates :
        /\ ValsBounded(TagsUpsert(Tags, tag, iv))
        /\ Cardinality(KnownTags(TagsUpsert(Tags, tag, iv))) <= MaxKnown
        /\ TagsBecome(TagsUpsert(Tags, tag, iv))
        /\ last' = [op |-> "Upsert"]

CloneDeleteByName ==
    \E name \in {tag.name : tag \in Templates} :
        /\ TagsBecome(TagsDeleteByName(Tags, name))
        /\ last' = [op |-> "DeleteByName", name |-> name,
                    cloned |-> \E tag \in KnownTags(Tags) :
                                   tag.name = name /\ tag \notin DOMAIN Tags.tags]

NextClone ==
    \/ CloneCloneTag
    \/ CloneAdd
    \/ CloneUpsert
    \/ CloneDeleteByName

SpecClone == InitTags /\ [][NextClone]_vars

\* C22: after DeleteByName(name) no tag with that name remains in the store:
\* TagsByName(name) lists no tag and none is found by Lookup or LookupRange,
\* whether the tags were registered through Add, Upsert or CloneTag
C22_DeleteByNameRemovesAll ==
    last.op = "DeleteByName" =>
        /\ TagsByName(Tags, last.name) = <<>>
        /\ \A tag \in DOMAIN Tags.tags : tag.name # last.name
        /\ \A q \in SomeIntervals : \A tag \in RangeTags(Tags, q) : tag.name # last.name

\* the returned tag has the name of the template, is listed by TagsByName and
\* has no interval
ReturnedRegistered ==
    /\ last.returned.name = last.template.name
    /\ SeqContains(TagsByName(Tags, last.template.name), last.returned)
    /\ ~TagsLookup(Tags, last.returned).ok

\* C23 as stated: CloneTag(template) always returns a new tag instance,
\* distinct from the template, with the template's name and the index one
\* more than the largest index among the tags of that name in the name index;
\* the returned tag is listed by TagsByName and Lookup reports no interval
C23_CloneTagAlwaysNew ==
    last.op = "CloneTag" =>
        /\ last.returned # last.template
        /\ last.returned.index = last.maxIndex + 1
        /\ ReturnedRegistered

\* C23, amended: when the name index has an entry for the template's name,
\* CloneTag(template) returns a new tag instance with the template's name and
\* the index one more than the largest index listed there (0 if none is
\* listed); when it has no entry, CloneTag returns the template itself; in
\* both cases the returned tag is listed by TagsByName and Lookup reports no
\* interval for it
C23_CloneTagNewIfListed ==
    last.op = "CloneTag" =>
        /\ last.listed => /\ last.returned # last.template
                          /\ last.returned.index = last.maxIndex + 1
        /\ ~last.listed => last.returned = last.template
        /\ ReturnedRegistered

C23_Witness ==
    /\ last.op = "CloneTag"
    /\ last.listed
    /\ last.maxIndex = 1
    /\ last.returned.index = 2
    /\ Cardinality(KnownTags(Tags)) = 3


(***************************************************************************)
(* Load.  A stream is the sequence of JSON values Load decodes: the        *)
(* header, the rows, the tags and the footer; ok is FALSE for a value the  *)
(* decoder rejects.  Config.CustomLoader is nil.                           *)
(***************************************************************************)
MAGIC == 86637303

VERSION == 100

\* the result of loadHeader: the error, "nil" for none
loadHeader(st) ==
    IF ~st.header.ok THEN "decode"
    ELSE IF st.header.Magic # MAGIC THEN "ErrInvalidStream"
    ELSE IF VERSION < st.header.MinVersion THEN "ErrVersionTooLow"
    ELSE "nil"

\* Load from loadText on: e is the editor, a record of z and lineOffset
LoadBody(e, st) ==
    IF ~st.text.ok THEN [e EXCEPT !.z.Rows = <<>>, !.err = "decode"]
    ELSE IF ~st.tags.ok THEN [e EXCEPT !.z.Rows = st.text.rows, !.err = "decode"]
    ELSE IF ~st.footer.ok
    THEN [e EXCEPT !.z.Rows = st.text.rows,
                   !.z.T = TagsSetAllTags(e.z.T, st.tags.tags),
                   !.err = "decode"]
    ELSE [e EXCEPT !.z.Rows = st.text.rows,
                   !.z.T = TagsSetAllTags(e.z.T, st.tags.tags),
                   !.z.caretPos = Pos(st.footer.CaretLine, st.footer.CaretColumn),
                   !.lineOffset = st.footer.LineOffset,
                   !.err = "nil"]

\* Load with Rows set to nil before the header is read
LoadOp_RowsClearedFirst(z, off, st) ==
    IF loadHeader(st) # "nil"
    THEN [z |-> [z EXCEPT !.Rows = <<>>], lineOffset |-> off, err |-> loadHeader(st)]
    ELSE LoadBody([z |-> z, lineOffset |-> off, err |-> "nil"], st)

LoadOp(z, off, st) ==
    IF loadHeader(st) # "nil"
    THEN [z |-> z, lineOffset |-> off, err |-> loadHeader(st)]
    ELSE LoadBody([z |-> z, lineOffset |-> off, err |-> "nil"], st)

\* the streams: headers with the magic constant and one other, with the
\* reader's version as minimum and the one above; documents of one and two
\* rows, of short and long rows, of no, one and two tags
Headers ==
    [ok : {TRUE}, Magic : {MAGIC, MAGIC + 1}, MinVersion : {VERSION, VERSION + 1}]
        \cup {[ok |-> FALSE, Magic |-> MAGIC, MinVersion |-> VERSION]}

Texts ==
    {[ok |-> TRUE, rows |-> r] :
        r \in {<<<<97, HardLF>>>>, <<<<97, 97, HardLF>>>>, <<<<97, HardLF>>, <<HardLF>>>>}}
        \cup {[ok |-> FALSE, rows |-> <<>>]}

TagLists ==
    {[ok |-> TRUE, tags |-> t] :
        t \in {<<>>,
               <<[Tag |-> UserTag, Interval |-> Interval(Pos(0, 0), Pos(0, 1))]>>,
               <<[Tag |-> UserTag, Interval |-> Interval(Pos(0, 0), Pos(0, 0))],
                 [Tag |-> MarkTags(0), Interval |-> Interval(Pos(0, 0), Pos(0, 1))]>>}}
        \cup {[ok |-> FALSE, tags |-> <<>>]}

Footers ==
    {[ok |-> TRUE, CaretLine |-> 0, CaretColumn |-> 1, LineOffset |-> 1],
     [ok |-> FALSE, CaretLine |-> 0, CaretColumn |-> 0, LineOffset |-> 0]}

Streams == [header : Headers, text : Texts, tags : TagLists, footer : Footers]

\* the size guards of Config: 0 is no limit
MaxLinesGuard == 1

MaxColumnsGuard == 2

MaxTagsGuard == 1

LoadConfigs ==
    {[MaxLines |-> a, MaxColumns |-> b, MaxTags |-> c] @@ NewConfig :
        a \in {0, MaxLinesGuard}, b \in {0, MaxColumnsGuard}, c \in {0, MaxTagsGuard}}

InitLoad ==
    \E cfg \in LoadConfigs :
        LET z == NewEditor(cfg)
        IN  /\ Rows = z.Rows
            /\ caretPos = z.caretPos
            /\ Tags = z.T
            /\ Config = z.Config
            /\ panicked = z.panic
            /\ unhandled = z.unhandled
            /\ lineOffset = 0
            /\ NoGoroutines
            /\ last = [op |-> "NewEditor"]

\* the variables after Load(st) returned e
Loaded(e, st) ==
    /\ Rows' = e.z.Rows
    /\ caretPos' = e.z.caretPos
    /\ Tags' = e.z.T
    /\ lineOffset' = e.lineOffset
    /\ UNCHANGED <<Config, panicked, unhandled>>
    /\ SameGoroutines
    /\ last' = [op |-> "Load", stream |-> st, err |-> e.err,
                before |-> IF e.err \in {"ErrInvalidStream", "ErrVersionTooLow"}
                           THEN <<Rows, Tags, caretPos, lineOffset>> ELSE <<>>]

Load ==
    /\ ~panicked
    /\ \E st \in Streams : Loaded(LoadOp(Z, lineOffset, st), st)

NextLoad == Load

SpecLoad == InitLoad /\ [][NextLoad]_vars

\* C24: Load on a stream whose header has a wrong magic constant returns
\* ErrInvalidStream, on one whose MinVersion is above VERSION it returns
\* ErrVersionTooLow, and in both cases Rows, the registered tags, the caret
\* and the scroll offset are as before
C24_HeaderRejected ==
    (last.op = "Load" /\ last.stream.header.ok) =>
        /\ last.stream.header.Magic # MAGIC => last.err = "ErrInvalidStream"
        /\ (last.stream.header.Magic = MAGIC /\ last.stream.header.MinVersion > VERSION) =>
               last.err = "ErrVersionTooLow"
        /\ (last.stream.header.Magic # MAGIC \/ last.stream.header.MinVersion > VERSION) =>
               <<Rows, Tags, caretPos, lineOffset>> = last.before

\* a header is rejected on an editor that holds a loaded document
C24_Witness ==
    /\ last.op = "Load"
    /\ last.stream.header.ok
    /\ last.stream.header.Magic = MAGIC
    /\ last.stream.header.MinVersion > VERSION
    /\ last.stream.text.ok
    /\ last.stream.text.rows # Rows
    /\ Len(Rows) = 2
    /\ DOMAIN Tags.tags # {}
    /\ lineOffset = 1
    /\ caretPos = Pos(0, 1)
    /\ last.err = "ErrVersionTooLow"

\* the longest row of rows
RECURSIVE LongestRow(_)
LongestRow(rows) == IF rows = <<>> THEN 0 ELSE Max(Len(Head(rows)), LongestRow(Tail(rows)))

\* C25: Load of a well-formed stream fails with ErrTooManyLines when the
\* document has more rows than Config.MaxLines, with ErrTooLongLine when a row
\* is longer than Config.MaxColumns, with ErrTooManyTags when it has more tags
\* than Config.MaxTags, each guard being active when its value is above 0
C25_SizeGuards ==
    (/\ last.op = "Load"
     /\ loadHeader(last.stream) = "nil"
     /\ last.stream.text.ok /\ last.stream.tags.ok /\ last.stream.footer.ok) =>
        /\ (Config.MaxLines > 0 /\ Len(last.stream.text.rows) > Config.MaxLines) =>
               last.err = "ErrTooManyLines"
        /\ (Config.MaxColumns > 0 /\ LongestRow(last.stream.text.rows) > Config.MaxColumns) =>
               last.err \in {"ErrTooManyLines", "ErrTooLongLine"}
        /\ (Config.MaxTags > 0 /\ Len(last.stream.tags.tags) > Config.MaxTags) =>
               last.err \in {"ErrTooManyLines", "ErrTooLongLine", "ErrTooManyTags"}


(***************************************************************************)
(* Refresh called from several goroutines.  Time is counted in ticks and   *)
(* relative to the moments the code compares: repaint.since is the time    *)
(* since lastRefreshed, a goroutine's age the time since the lastRefreshed *)
(* it read, rem the rest of its time.Sleep; all three stop counting at     *)
(* MinRefreshInterval, from where on the code's comparisons do not change. *)
(* pending marks a goroutine whose Refresh call no repaint has followed.   *)
(***************************************************************************)
\* Config.MinRefreshInterval, in ticks
MinRefreshInterval == 2

\* the goroutines that call Refresh; one that starts the deferred-refresh
\* goroutine and returns is continued as that goroutine
MaxRefreshers == 2

Refreshers == 1..MaxRefreshers

Since(t) == Min(t + 1, MinRefreshInterval)

\* the buffer of a new editor
AsConstructed ==
    LET z == NewEditor(NewConfig)
    IN  /\ Rows = z.Rows
        /\ caretPos = z.caretPos
        /\ Tags = z.T
        /\ Config = z.Config
        /\ panicked = z.panic
        /\ unhandled = z.unhandled
        /\ lineOffset = 0
        /\ last = [op |-> "NewEditor"]

SameBuffer == UNCHANGED <<Rows, caretPos, Tags, Config, unhandled, lineOffset>>

\* lastRefreshed is the zero time and refresher nil in a new editor
InitRefresh ==
    /\ AsConstructed
    /\ goroutines = [g \in Refreshers |->
                        [pc |-> "idle", age |-> 0, fn |-> FALSE, rem |-> 0, pending |-> FALSE]]
    /\ repaint = [since |-> MinRefreshInterval, refresher |-> FALSE]
    /\ mutex = 0
    /\ blink = <<>>

\* goroutine g goes on as the record r; nothing else changes
Goes(g, r) ==
    /\ goroutines' = [goroutines EXCEPT ![g] = r]
    /\ SameBuffer
    /\ UNCHANGED <<panicked, last, mutex, repaint, blink>>

\* a goroutine calls Refresh
CallOf(g) ==
    /\ goroutines[g].pc = "idle"
    /\ Goes(g, [goroutines[g] EXCEPT !.pc = "read", !.pending = TRUE])

\* the read of lastRefreshed and refresher under the read lock
ReadOf(g) ==
    /\ goroutines[g].pc = "read"
    /\ Goes(g, [goroutines[g] EXCEPT !.pc = "check", !.age = repaint.since,
                                      !.fn = repaint.refresher])

\* the test of the interval: on to the repaint, return because a refresher
\* was set, or start the goroutine that sleeps and calls Refresh
CheckOf(g) ==
    /\ goroutines[g].pc = "check"
    /\ Goes(g, IF goroutines[g].age >= MinRefreshInterval
               THEN [goroutines[g] EXCEPT !.pc = "set"]
               ELSE IF goroutines[g].fn
               THEN [goroutines[g] EXCEPT !.pc = "idle", !.age = 0, !.fn = FALSE]
               ELSE [goroutines[g] EXCEPT !.pc = "sleep", !.age = 0, !.fn = FALSE,
                                          !.rem = MinRefreshInterval])

\* z.refresher is set under the lock
SetOf(g) ==
    /\ goroutines[g].pc = "set"
    /\ goroutines' = [goroutines EXCEPT ![g].pc = "call"]
    /\ repaint' = [repaint EXCEPT !.refresher = TRUE]
    /\ SameBuffer
    /\ UNCHANGED <<panicked, last, mutex, blink>>

\* z.refresher(): the call of a nil function panics; the function sets
\* lastRefreshed and starts refreshProc, the repaint every earlier call waits for
RunOf(g) ==
    /\ goroutines[g].pc = "call"
    /\ IF repaint.refresher
       THEN /\ goroutines' = [h \in Refreshers |->
                                 [goroutines[h] EXCEPT !.pending = FALSE,
                                                       !.pc = IF h = g THEN "paint" ELSE @]]
            /\ repaint' = [repaint EXCEPT !.since = 0]
            /\ last' = [op |-> "refreshProc", gap |-> repaint.since]
            /\ UNCHANGED panicked
       ELSE /\ panicked' = TRUE
            /\ UNCHANGED <<goroutines, repaint, last>>
    /\ SameBuffer
    /\ UNCHANGED <<mutex, blink>>

\* refreshProc returns and the deferred function sets z.refresher to nil
ReturnOf(g) ==
    /\ goroutines[g].pc = "paint"
    /\ goroutines' = [goroutines EXCEPT ![g] = [@ EXCEPT !.pc = "idle", !.age = 0, !.fn = FALSE]]
    /\ repaint' = [repaint EXCEPT !.refresher = FALSE]
    /\ SameBuffer
    /\ UNCHANGED <<panicked, last, mutex, blink>>

\* time.Sleep(interval) is over and the goroutine calls Refresh
WakeOf(g) ==
    /\ goroutines[g].pc = "sleep"
    /\ goroutines[g].rem = 0
    /\ Goes(g, [goroutines[g] EXCEPT !.pc = "read", !.pending = TRUE])

RefreshCall == ~panicked /\ \E g \in Refreshers : CallOf(g)

RefreshRead == ~panicked /\ \E g \in Refreshers : ReadOf(g)

RefreshCheck == ~panicked /\ \E g \in Refreshers : CheckOf(g)

RefreshSet == ~panicked /\ \E g \in Refreshers : SetOf(g)

RefreshRun == ~panicked /\ \E g \in Refreshers : RunOf(g)

RefreshReturn == ~panicked /\ \E g \in Refreshers : ReturnOf(g)

RefreshWake == ~panicked /\ \E g \in Refreshers : WakeOf(g)

\* one tick of time
Tick ==
    /\ ~panicked
    /\ goroutines' = [g \in Refreshers |->
                         [goroutines[g] EXCEPT
                             !.age = IF goroutines[g].pc = "check" THEN Since(@) ELSE @,
                             !.rem = Max(@ - 1, 0)]]
    /\ repaint' = [repaint EXCEPT !.since = Since(@)]
    /\ SameBuffer
    /\ UNCHANGED <<panicked, last, mutex, blink>>

NextRefresh ==
    \/ RefreshCall
    \/ RefreshRead
    \/ RefreshCheck
    \/ RefreshSet
    \/ RefreshRun
    \/ RefreshReturn
    \/ RefreshWake
    \/ Tick

SpecRefresh == InitRefresh /\ [][NextRefresh]_vars

\* every goroutine that can take a step of Refresh takes it, and time goes on
SpecRefreshFair ==
    /\ SpecRefresh
    /\ WF_vars(Tick)
    /\ \A g \in Refreshers :
          /\ WF_vars(~panicked /\ ReadOf(g))
          /\ WF_vars(~panicked /\ CheckOf(g))
          /\ WF_vars(~panicked /\ SetOf(g))
          /\ WF_vars(~panicked /\ RunOf(g))
          /\ WF_vars(~panicked /\ ReturnOf(g))
          /\ WF_vars(~panicked /\ WakeOf(g))

\* C26: no repaint request is dropped: every call of Refresh is eventually
\* followed by a repaint that starts after the call, also when the call comes
\* less than MinRefreshInterval after the previous repaint or during a repaint
C26_NoRequestDropped ==
    \A g \in Refreshers : goroutines[g].pending ~> ~goroutines[g].pending

\* C27: under every interleaving of Refresh calls from several goroutines no
\* two repaints start less than MinRefreshInterval apart
C27_RepaintsApart ==
    last.op = "refreshProc" => last.gap >= MinRefreshInterval


(***************************************************************************)
(* The caret-blink task.  blink holds the editor's caret fields:           *)
(* caretState, hasCaretBlinking, hasFocus, the blink goroutines started so *)
(* far (tasks, each with its context's cancelled flag and its oddTick) and *)
(* cancel, the task whose context z.caretBlinkCancel cancels, 0 for the    *)
(* context of the constructor, which no task listens to.  The repaint the  *)
(* calls ask for with Refresh is the matter of SpecRefresh and left out.   *)
(***************************************************************************)
\* blink goroutines started in a behaviour, the constructor's included
MaxBlinkTasks == 3

\* context.CancelFunc of the task z.caretBlinkCancel belongs to; to cancel a
\* cancelled context does nothing
CancelBlink(b) ==
    IF b.cancel = 0 THEN b
    ELSE [b EXCEPT !.tasks[b.cancel].cancelled = TRUE]

\* BlinkCaret(on)
BlinkCaretOp(b, on) ==
    IF ~on
    THEN [CancelBlink(b) EXCEPT !.hasCaretBlinking = FALSE, !.caretState = 2]
    ELSE [b EXCEPT !.hasCaretBlinking = TRUE,
                   !.tasks = Append(@, [pc |-> "run", cancelled |-> FALSE, oddTick |-> FALSE]),
                   !.cancel = Len(b.tasks) + 1]

\* CaretOff, which returns HasBlinkingCaret() and also clears Config.DrawCaret
CaretOffOp(b) == [CancelBlink(b) EXCEPT !.caretState = 0]

\* CaretOn(blinking), which also sets Config.DrawCaret
CaretOnOp(b, blinking) == BlinkCaretOp([b EXCEPT !.caretState = 2], blinking)

\* the caret part of SetCaret and of MoveCaret: CaretOff, and CaretOn in the
\* deferred function if Config.DrawCaret was set at the call
CaretOffOn(b, drawCaret) ==
    IF drawCaret THEN CaretOnOp(CaretOffOp(b), b.hasCaretBlinking) ELSE CaretOffOp(b)

\* one round of the loop of a blink goroutine; delayed is
\* time.Since(z.lastInteraction) > z.Config.CaretBlinkDelay
BlinkLoop(b, i, delayed) ==
    IF b.tasks[i].cancelled THEN [b EXCEPT !.tasks[i].pc = "done"]
    ELSE IF b.tasks[i].oddTick /\ delayed
    THEN [b EXCEPT !.caretState = 1, !.tasks[i].oddTick = FALSE]
    ELSE [b EXCEPT !.caretState = 2, !.tasks[i].oddTick = TRUE]

\* the constructor sets caretState to 1 and ends with BlinkCaret(true)
NewBlink ==
    BlinkCaretOp([tasks |-> <<>>, cancel |-> 0, hasCaretBlinking |-> FALSE,
                  caretState |-> 1, hasFocus |-> FALSE], TRUE)

InitBlink ==
    /\ AsConstructed
    /\ goroutines = <<>>
    /\ mutex = 0
    /\ repaint = <<>>
    /\ blink = NewBlink

\* a call that leaves z as the buffer and b as the caret fields
BlinkBecomes(z, b, op) ==
    /\ Len(b.tasks) <= MaxBlinkTasks
    /\ Rows' = z.Rows
    /\ caretPos' = z.caretPos
    /\ Tags' = z.T
    /\ Config' = z.Config
    /\ panicked' = z.panic
    /\ unhandled' = z.unhandled
    /\ blink' = b
    /\ last' = op
    /\ UNCHANGED <<lineOffset, goroutines, mutex, repaint>>

BlinkCaret ==
    /\ ~panicked
    /\ \E on \in BOOLEAN :
          BlinkBecomes(Z, BlinkCaretOp(blink, on), [op |-> "BlinkCaret", on |-> on])

BlinkCaretOff ==
    /\ ~panicked
    /\ BlinkBecomes([Z EXCEPT !.Config.DrawCaret = FALSE], CaretOffOp(blink),
                    [op |-> "CaretOff"])

BlinkCaretOn ==
    /\ ~panicked
    /\ \E blinking \in BOOLEAN :
          BlinkBecomes([Z EXCEPT !.Config.DrawCaret = TRUE], CaretOnOp(blink, blinking),
                       [op |-> "CaretOn"])

BlinkSetCaret ==
    /\ ~panicked
    /\ \E pos \in AllPositions(Rows) :
          BlinkBecomes(SetCaretOp(Z, pos), CaretOffOn(blink, Config.DrawCaret),
                       [op |-> "SetCaret"])

BlinkMoveCaret ==
    /\ ~panicked
    /\ \E dir \in CaretMovements :
          /\ MoveCaretOp(Z, dir).caretPos.Column >= -MaxBelow
          /\ BlinkBecomes(MoveCaretOp(Z, dir), CaretOffOn(blink, Config.DrawCaret),
                          [op |-> "MoveCaret"])

FocusGained ==
    /\ ~panicked
    /\ BlinkBecomes(Z, [blink EXCEPT !.hasFocus = TRUE], [op |-> "FocusGained"])

FocusLost ==
    /\ ~panicked
    /\ BlinkBecomes(Z, [blink EXCEPT !.hasFocus = FALSE], [op |-> "FocusLost"])

\* the blink goroutine i was started and has not returned
BlinkRuns(i) == i \in DOMAIN blink.tasks /\ blink.tasks[i].pc = "run"

\* the blink goroutine i goes once round its loop
BlinkTaskOf(i) ==
    /\ BlinkRuns(i)
    /\ \E delayed \in BOOLEAN : blink' = BlinkLoop(blink, i, delayed)
    /\ UNCHANGED <<Rows, caretPos, Tags, Config, panicked, unhandled, lineOffset, last,
                   goroutines, mutex, repaint>>

BlinkTask == ~panicked /\ \E i \in 1..MaxBlinkTasks : BlinkTaskOf(i)

NextBlink ==
    \/ BlinkCaret
    \/ BlinkCaretOff
    \/ BlinkCaretOn
    \/ BlinkSetCaret
    \/ BlinkMoveCaret
    \/ FocusGained
    \/ FocusLost
    \/ BlinkTask

SpecBlink == InitBlink /\ [][NextBlink]_vars

\* every blink goroutine that is running goes round its loop again
SpecBlinkFair ==
    /\ SpecBlink
    /\ \A i \in 1..MaxBlinkTasks : WF_vars(BlinkTaskOf(i))

\* the call before was BlinkCaret(false) or FocusLost
BlinkingStopped ==
    \/ last.op = "BlinkCaret" /\ ~last.on
    \/ last.op = "FocusLost"

\* C28: after BlinkCaret(false) and after FocusLost every blink task started
\* earlier eventually terminates, so that no task keeps toggling the caret state
C28_BlinkTasksTerminate ==
    \A i \in 1..MaxBlinkTasks : (BlinkingStopped /\ BlinkRuns(i)) ~> ~BlinkRuns(i)


(***************************************************************************)
(* The tag container used by several goroutines.  A writer holds           *)
(* TagContainer.mutex from the Lock of Add, Upsert or Delete to the        *)
(* deferred Unlock and changes Tags statement by statement in between;     *)
(* Lookup, LookupRange and TagsByName take the mutex, AllTags and the      *)
(* iteration of refreshProc over the set TagsByName returned do not.       *)
(* A goroutine's start is the container at its Lock.                       *)
(***************************************************************************)
MaxWriters == 2

MaxReaders == 1

Writers == 1..MaxWriters

Readers == (MaxWriters + 1)..(MaxWriters + MaxReaders)

StoreTags == {MarkTags(0), MarkTags(1)}

\* the tags of one call of Add
StoreTagSeqs == {<<MarkTags(0)>>, <<MarkTags(1)>>, <<MarkTags(0), MarkTags(1)>>}

StoreIntervals == {Interval(Pos(0, 0), Pos(0, 0)), Interval(Pos(0, 0), Pos(0, 1))}

StoreIdle ==
    [pc |-> "idle", iv |-> Interval(Pos(0, 0), Pos(0, 0)), tags |-> <<>>, rest |-> <<>>,
     start |-> NewTagContainer]

InitStore ==
    /\ AsConstructed
    /\ goroutines = [g \in Writers \cup Readers |-> StoreIdle]
    /\ mutex = 0
    /\ repaint = <<>>
    /\ blink = <<>>

\* what the call of the goroutine r leaves of the container its Lock found
StoreResult(r) ==
    CASE r.pc = "add" -> TagsAdd(r.start, r.iv, r.tags)
      [] r.pc \in {"upsert", "upsertPut"} -> TagsUpsert(r.start, Head(r.tags), r.iv)
      [] r.pc \in {"delete", "deleteRest"} -> TagsDelete(r.start, Head(r.tags))
      [] OTHER -> r.start

\* the container as the completed calls left it, and as they leave it once
\* the call that holds the mutex has returned
Committed == IF mutex = 0 THEN Tags ELSE goroutines[mutex].start

Completing == IF mutex = 0 THEN Tags ELSE StoreResult(goroutines[mutex])

\* goroutine g goes on as r with the container t, holding the mutex or not
StoreGoes(g, r, t, holder, op) ==
    /\ goroutines' = [goroutines EXCEPT ![g] = r]
    /\ Tags' = t
    /\ mutex' = holder
    /\ last' = op
    /\ UNCHANGED <<Rows, caretPos, Config, panicked, unhandled, lineOffset, repaint, blink>>

\* t.mutex.Lock() of Add, Upsert or Delete
StoreLock ==
    /\ ~panicked
    /\ mutex = 0
    /\ \E w \in Writers, iv \in StoreIntervals :
          /\ goroutines[w].pc = "idle"
          /\ \/ \E tagseq \in StoreTagSeqs :
                   /\ ValsBounded(TagsAdd(Tags, iv, tagseq))
                   /\ StoreGoes(w, [pc |-> "add", iv |-> iv, tags |-> tagseq, rest |-> tagseq,
                                    start |-> Tags], Tags, w, [op |-> "Add"])
             \/ \E tag \in StoreTags :
                   /\ ValsBounded(TagsUpsert(Tags, tag, iv))
                   /\ StoreGoes(w, [pc |-> "upsert", iv |-> iv, tags |-> <<tag>>, rest |-> <<>>,
                                    start |-> Tags], Tags, w, [op |-> "Upsert"])
             \/ \E tag \in StoreTags :
                   StoreGoes(w, [pc |-> "delete", iv |-> StoreIdle.iv, tags |-> <<tag>>,
                                 rest |-> <<>>, start |-> Tags], Tags, w, [op |-> "Delete"])

\* one round of the loop of Add: the interval and the name index of one tag
StoreAddTag ==
    /\ ~panicked
    /\ \E w \in Writers :
          LET r == goroutines[w]
          IN  /\ r.pc = "add"
              /\ r.rest # <<>>
              /\ StoreGoes(w, [r EXCEPT !.rest = Tail(r.rest)],
                           [Tags EXCEPT !.tags = MapPut(Tags.tags, Head(r.rest), r.iv),
                                        !.names = NamesAdd(Tags.names, Head(r.rest))],
                           w, last)

\* t.lookup.Insert of Add, and the deferred Unlock
StoreAddInsert ==
    /\ ~panicked
    /\ \E w \in Writers :
          LET r == goroutines[w]
          IN  /\ r.pc = "add"
              /\ r.rest = <<>>
              /\ StoreGoes(w, StoreIdle,
                           [Tags EXCEPT !.lookup = TreeInsert(Tags.lookup, r.iv.Start, r.iv.End,
                                                               r.tags)],
                           0, last)

\* Upsert takes the tag from under its old interval in the tree
StoreUpsertDrop ==
    /\ ~panicked
    /\ \E w \in Writers :
          LET r == goroutines[w]
              tag == Head(r.tags)
          IN  /\ r.pc = "upsert"
              /\ StoreGoes(w, [r EXCEPT !.pc = "upsertPut"],
                           IF tag \in DOMAIN Tags.tags
                           THEN [Tags EXCEPT !.lookup = TreeDropTag(Tags.lookup, Tags.tags[tag], tag)]
                           ELSE Tags,
                           w, last)

\* Upsert sets the interval, the name index and the tree, and unlocks
StoreUpsertPut ==
    /\ ~panicked
    /\ \E w \in Writers :
          LET r == goroutines[w]
              tag == Head(r.tags)
          IN  /\ r.pc = "upsertPut"
              /\ StoreGoes(w, StoreIdle,
                           [tags   |-> MapPut(Tags.tags, tag, r.iv),
                            names  |-> NamesAdd(Tags.names, tag),
                            lookup |-> TreeInsert(Tags.lookup, r.iv.Start, r.iv.End, <<tag>>)],
                           0, last)

\* Delete returns for a tag without interval and else deletes it from t.tags
StoreDeleteMap ==
    /\ ~panicked
    /\ \E w \in Writers :
          LET r == goroutines[w]
              tag == Head(r.tags)
          IN  /\ r.pc = "delete"
              /\ IF tag \notin DOMAIN Tags.tags
                 THEN StoreGoes(w, StoreIdle, Tags, 0, last)
                 ELSE StoreGoes(w, [r EXCEPT !.pc = "deleteRest", !.iv = Tags.tags[tag]],
                                [Tags EXCEPT !.tags = MapDel(Tags.tags, tag)], w, last)

\* Delete takes the tag from the name index and the tree, and unlocks
StoreDeleteRest ==
    /\ ~panicked
    /\ \E w \in Writers :
          LET r == goroutines[w]
              tag == Head(r.tags)
              found == TreeFind(Tags.lookup, r.iv.Start, r.iv.End)
          IN  /\ r.pc = "deleteRest"
              /\ StoreGoes(w, StoreIdle,
                           IF ~found.ok THEN Tags
                           ELSE [Tags EXCEPT
                                    !.names = IF tag.name \in DOMAIN Tags.names
                                              THEN MapPut(Tags.names, tag.name,
                                                          SeqRemoveAll(Tags.names[tag.name], tag))
                                              ELSE Tags.names,
                                    !.lookup = TreeDropTag(Tags.lookup, r.iv, tag)],
                           0, last)

\* a read: what it saw, and the same of the container as the completed calls
\* left it and as the call in progress leaves it
Read(op, seen, before, after) ==
    [op |-> op, seen |-> seen, before |-> before, after |-> after]

\* the reader is alone with the container while it holds the mutex
ReadUnder(g, op, seen) ==
    /\ mutex = 0
    /\ goroutines[g].pc = "idle"
    /\ StoreGoes(g, goroutines[g], Tags, 0, Read(op, seen, seen, seen))

ReadLookup ==
    /\ ~panicked
    /\ \E g \in Readers, tag \in StoreTags : ReadUnder(g, "Lookup", TagsLookup(Tags, tag))

ReadLookupRange ==
    /\ ~panicked
    /\ \E g \in Readers, iv \in StoreIntervals :
          ReadUnder(g, "LookupRange", TagsLookupRange(Tags, iv))

\* a writer is between two writes of the Go map t.tags, which the runtime
\* may meet with "fatal error: concurrent map iteration and map write"
WritesTags ==
    /\ mutex # 0
    /\ \/ goroutines[mutex].pc = "add" /\ goroutines[mutex].rest # <<>>
       \/ goroutines[mutex].pc \in {"upsertPut", "delete"}

\* the same for the ordered set of a name
WritesNames ==
    /\ mutex # 0
    /\ \/ goroutines[mutex].pc = "add" /\ goroutines[mutex].rest # <<>>
       \/ goroutines[mutex].pc \in {"upsertPut", "deleteRest"}

\* the program ends with a fatal error of the runtime
Fatal ==
    /\ panicked' = TRUE
    /\ last' = [op |-> "fatal"]
    /\ UNCHANGED <<Rows, caretPos, Tags, Config, unhandled, lineOffset,
                   goroutines, mutex, repaint, blink>>

\* AllTags ranges over t.tags without the mutex
ReadAllTags ==
    /\ ~panicked
    /\ \E g \in Readers :
          /\ goroutines[g].pc = "idle"
          /\ \/ StoreGoes(g, goroutines[g], Tags, mutex,
                          Read("AllTags", Tags.tags, Committed.tags, Completing.tags))
             \/ WritesTags /\ Fatal

\* refreshProc asks TagsByName for the set of a styler's name
ReadTagsByName ==
    /\ ~panicked
    /\ mutex = 0
    /\ \E g \in Readers :
          /\ goroutines[g].pc = "idle"
          /\ "mark" \in DOMAIN Tags.names
          /\ StoreGoes(g, [goroutines[g] EXCEPT !.pc = "iter"], Tags, 0, [op |-> "TagsByName"])

\* refreshProc iterates over the set without the mutex
ReadIterate ==
    /\ ~panicked
    /\ \E g \in Readers :
          /\ goroutines[g].pc = "iter"
          /\ \/ StoreGoes(g, StoreIdle, Tags, mutex,
                          Read("Iter", TagsByName(Tags, "mark"), TagsByName(Committed, "mark"),
                               TagsByName(Completing, "mark")))
             \/ WritesNames /\ Fatal

NextStore ==
    \/ StoreLock
    \/ StoreAddTag
    \/ StoreAddInsert
    \/ StoreUpsertDrop
    \/ StoreUpsertPut
    \/ StoreDeleteMap
    \/ StoreDeleteRest
    \/ ReadLookup
    \/ ReadLookupRange
    \/ ReadAllTags
    \/ ReadTagsByName
    \/ ReadIterate

SpecStore == InitStore /\ [][NextStore]_vars

\* C29: every read of the map, the tree and the name index made concurrently
\* with writers (Lookup, LookupRange, AllTags, the iteration over the set of
\* TagsByName) observes a state produced by completed Add, Upsert and Delete
\* calls only, never a state in the middle of one
C29_ReadsSeeCompletedCalls ==
    last.op \in {"Lookup", "LookupRange", "AllTags", "Iter"} =>
        last.seen \in {last.before, last.after}


(***************************************************************************)
(* The caret moved through a text of several rows: SetText, then SetCaret  *)
(* to any rune and MoveCaret in any direction                              *)
(***************************************************************************)
MaxCaretText == 3

CaretTexts == SeqsUpTo(TextRunes, MaxCaretText)

InitCaret ==
    \E cfg \in Configs :
        LET z == NewEditor(cfg)
        IN  /\ Rows = z.Rows
            /\ caretPos = z.caretPos
            /\ Tags = z.T
            /\ Config = z.Config
            /\ panicked = z.panic
            /\ unhandled = z.unhandled
            /\ lineOffset = 0
            /\ NoGoroutines
            /\ last = [op |-> "NewEditor"]

CaretSetText ==
    /\ ~panicked
    /\ last.op = "NewEditor"
    /\ \E s \in CaretTexts :
          Becomes(SetTextOp(Z, s), [op |-> "SetText"])

CaretSetCaret ==
    /\ ~panicked
    /\ \E pos \in AllPositions(Rows) :
          Becomes(SetCaretOp(Z, pos), [op |-> "SetCaret"])

CaretMoveCaret ==
    /\ ~panicked
    /\ \E dir \in CaretMovements :
          /\ MoveCaretOp(Z, dir).caretPos.Column >= -MaxBelow
          /\ Becomes(MoveCaretOp(Z, dir), [op |-> "MoveCaret", dir |-> dir, from |-> caretPos])

\* rows of the text after the Return key was pressed a few times
MaxCaretRows == 3

CaretReturn ==
    /\ ~panicked
    /\ Len(Rows) + 1 <= MaxCaretRows
    /\ Becomes(ReturnOp(Z), [op |-> "Return", from |-> caretPos, rows |-> Rows])

NextCaret ==
    \/ CaretSetText
    \/ CaretSetCaret
    \/ CaretMoveCaret
    \/ CaretReturn

SpecCaret == InitCaret /\ [][NextCaret]_vars

\* C30: from any valid caret position p, MoveCaret(CaretRight) puts the caret
\* at NextPos(p) when p is not the document's last position and leaves it at
\* p otherwise; MoveCaret(CaretLeft) puts it at PrevPos(p) when p is not (0,0)
\* and leaves it at (0,0) otherwise
C30_LeftRightFollowPositions ==
    (last.op = "MoveCaret" /\ ~panicked /\ last.from \in AllPositions(Rows)) =>
        /\ last.dir = "CaretRight" =>
              caretPos = IF last.from = LastPos(Z) THEN last.from
                         ELSE NextPos(Z, last.from).pos
        /\ last.dir = "CaretLeft" =>
              caretPos = IF last.from = Pos(0, 0) THEN Pos(0, 0)
                         ELSE PrevPos(Z, last.from).pos

\* C31: Return with a valid caret at (L, c): for c > 0 row L becomes its first
\* c runes and the hard delimiter and a new row L+1 holds the rest of the old
\* row; for c = 0 a row of the hard delimiter alone is inserted at L; the
\* caret ends at (L+1, 0) and no other row changes
C31_ReturnSplitsRow ==
    (last.op = "Return" /\ last.from \in AllPositions(last.rows)) =>
        LET L == last.from.Line
            c == last.from.Column
            row == At(last.rows, L)
        IN  /\ ~panicked
            /\ caretPos = Pos(L + 1, 0)
            /\ Len(Rows) = Len(last.rows) + 1
            /\ At(Rows, L) = IF c > 0 THEN Append(Slice(row, 0, c), HardLF) ELSE <<HardLF>>
            /\ At(Rows, L + 1) = IF c > 0 THEN Slice(row, c, Len(row)) ELSE row
            /\ \A i \in 0..(L - 1) : At(Rows, i) = At(last.rows, i)
            /\ \A i \in (L + 1)..(Len(last.rows) - 1) : At(Rows, i + 1) = At(last.rows, i)

\* Return in the middle of the second of two rows
C31_Witness ==
    /\ last.op = "Return"
    /\ last.from \in AllPositions(last.rows)
    /\ last.from.Line = 1
    /\ last.from.Column > 0
    /\ last.from.Column < Len(At(last.rows, 1)) - 1
    /\ ~panicked


(***************************************************************************)
(* Caret events: the callbacks of the tags around SetCaret and MoveCaret.  *)
(* A call of a callback is recorded as the event and the tag; fyne.Do      *)
(* runs the calls in the order they were made.                             *)
(***************************************************************************)
MaxEventText == 2

\* tags that have a callback: a mark tag of the configuration, and a tag of
\* the application after SetCallback
EventTags == {MarkTags(0), UserTag}

HasCallback(tag) == tag \in EventTags

\* the loop of handleCaretEvent over the tags LookupRange found
RECURSIVE EventLoop(_, _, _, _)
EventLoop(t, evt, tagseq, pos2) ==
    IF tagseq = <<>> THEN <<>>
    ELSE LET tag == Head(tagseq)
             lk  == TagsLookup(t, tag)
             further == EventLoop(t, evt, Tail(tagseq), pos2)
         IN  IF ~HasCallback(tag) THEN further
             ELSE IF lk.ok /\ ~Contains(lk.interval, pos2)
             THEN <<[evt |-> evt, tag |-> tag]>> \o further
             ELSE further

handleCaretEvent(t, evt, pos1, pos2) ==
    EventLoop(t, evt, TagsLookupRange(t, Interval(pos1, pos1)), pos2)

\* the events of one case of MoveCaret's switch from oldPos to newPos, and
\* of the deferred function once the caret is at pos
LeaveEvents(z, oldPos, newPos) == handleCaretEvent(z.T, "CaretLeaveEvent", oldPos, newPos)

EnterEvents(z, pos, oldPos) == handleCaretEvent(z.T, "CaretEnterEvent", pos, oldPos)

\* SetCaret: the leave events before the caret is set, the enter events after
\* maybeHighlightParen
SetCaretEvents(z, pos) ==
    LET p == MinPos(pos, LastPos(z))
    IN  LeaveEvents(z, z.caretPos, p) \o EnterEvents(SetCaretOp(z, pos), p, z.caretPos)

\* MoveCaret: CaretLeft in column 0 calls MoveCaret(CaretUp) and CaretRight in
\* the last column calls MoveCaret(CaretDown) from column 0, each with the
\* events of a call of its own
MoveCaretEvents(z, dir) ==
    LET c == z.caretPos
        q == MoveCaretPos(z, dir).pos
        up == Pos(Max(c.Line - 1, 0), c.Column)
        home == Pos(c.Line, 0)
    IN  IF dir = "CaretLeft" /\ c.Column = 0
        THEN IF c.Line = 0 THEN EnterEvents(z, c, c)
             ELSE LeaveEvents(z, c, up) \o EnterEvents(z, up, c)
                  \o LeaveEvents(z, c, q) \o EnterEvents(z, q, c)
        ELSE IF dir = "CaretRight" /\ c.Column >= Len(At(z.Rows, c.Line)) - 1
        THEN LeaveEvents(z, home, q) \o EnterEvents(z, q, home) \o EnterEvents(z, q, c)
        ELSE LeaveEvents(z, c, q) \o EnterEvents(z, q, c)

EventSetText ==
    /\ ~panicked
    /\ last.op = "NewEditor"
    /\ \E s \in SeqsUpTo(TextRunes, MaxEventText) :
          Becomes(SetTextOp(Z, s), [op |-> "SetText"])

EventTagAdd ==
    /\ ~panicked
    /\ \E tag \in EventTags \ DOMAIN Tags.tags, a \in AllPositions(Rows), b \in AllPositions(Rows) :
          /\ CmpPos(a, b) <= 0
          /\ Becomes([Z EXCEPT !.T = TagsAdd(Tags, Interval(a, b), <<tag>>)], [op |-> "TagAdd"])

EventSetCaret ==
    /\ ~panicked
    /\ \E pos \in AllPositions(Rows) :
          Becomes(SetCaretOp(Z, pos),
                  [op |-> "SetCaret", from |-> caretPos, events |-> SetCaretEvents(Z, pos)])

EventMoveCaret ==
    /\ ~panicked
    /\ caretPos \in AllPositions(Rows)
    /\ \E dir \in CaretMovements :
          /\ ~MoveCaretOp(Z, dir).panic
          /\ Becomes(MoveCaretOp(Z, dir),
                     [op |-> "MoveCaret", from |-> caretPos, dir |-> dir,
                      events |-> MoveCaretEvents(Z, dir)])

NextEvents ==
    \/ EventSetText
    \/ EventTagAdd
    \/ EventSetCaret
    \/ EventMoveCaret

SpecEvents == Init /\ [][NextEvents]_vars

\* how often tag received evt, and how often it should have from p to q
Received(events, evt, tag) == Occurrences(events, [evt |-> evt, tag |-> tag])

Due(tag, p, q) == IF Contains(Tags.tags[tag], p) /\ ~Contains(Tags.tags[tag], q) THEN 1 ELSE 0

\* C32: for every MoveCaret or SetCaret that takes the caret from p to q, each
\* tag with a callback receives CaretLeaveEvent exactly once if its interval
\* contains p and not q, CaretEnterEvent exactly once if it contains q and
\* not p, and no enter or leave event otherwise
C32_EnterLeaveOnce ==
    last.op \in {"MoveCaret", "SetCaret"} =>
        \A tag \in EventTags \cap DOMAIN Tags.tags :
            /\ Received(last.events, "CaretLeaveEvent", tag) = Due(tag, last.from, caretPos)
            /\ Received(last.events, "CaretEnterEvent", tag) = Due(tag, caretPos, last.from)


(***************************************************************************)
(* Delete and the caret: SetText, the caret set to any rune, then Delete   *)
(* of any interval that ends before the last position                      *)
(***************************************************************************)
MaxDelText == 3

\* a rune of the text: any but the soft delimiter that ends a row
IsText(rows, p) ==
    ~(p.Column = Len(At(rows, p.Line)) - 1 /\ At(At(rows, p.Line), p.Column) = SoftLF)

\* the runes of the text before p, and at the positions of fromTo
TextIndex(rows, p) ==
    Cardinality({q \in AllPositions(rows) : IsText(rows, q) /\ CmpPos(q, p) < 0})

TextIn(rows, fromTo) ==
    Cardinality({q \in AllPositions(rows) : IsText(rows, q) /\ Contains(fromTo, q)})

DelSetText ==
    /\ ~panicked
    /\ last.op = "NewEditor"
    /\ \E s \in SeqsUpTo(TextRunes, MaxDelText) :
          Becomes(SetTextOp(Z, s), [op |-> "SetText"])

DelSetCaret ==
    /\ ~panicked
    /\ \E pos \in AllPositions(Rows) :
          Becomes(SetCaretOp(Z, pos), [op |-> "SetCaret"])

DelDelete ==
    /\ ~panicked
    /\ caretPos \in AllPositions(Rows)
    /\ \E a \in AllPositions(Rows), b \in AllPositions(Rows) :
          /\ CmpPos(a, b) <= 0
          /\ CmpPos(b, LastPos(Z)) < 0
          /\ Becomes(DeleteOp(Z, Interval(a, b)),
                     [op |-> "Delete", fromTo |-> Interval(a, b), from |-> caretPos,
                      rows |-> Rows])

NextDel ==
    \/ DelSetText
    \/ DelSetCaret
    \/ DelDelete

SpecDel == InitSetText /\ [][NextDel]_vars

\* the caret is on the rune of the text with n runes of the text before it
CaretOnText(n) ==
    /\ ~panicked
    /\ caretPos \in AllPositions(Rows)
    /\ IsText(Rows, caretPos)
    /\ TextIndex(Rows, caretPos) = n

\* C33: after Delete(fromTo) a caret that was strictly after fromTo.End
\* designates the same character as before, and a caret that was inside
\* fromTo is at the position where fromTo.Start ends up after the reflow
C33_CaretFollowsDelete ==
    last.op = "Delete" =>
        /\ (CmpPos(last.fromTo.End, last.from) < 0 /\ IsText(last.rows, last.from)) =>
               CaretOnText(TextIndex(last.rows, last.from) - TextIn(last.rows, last.fromTo))
        /\ Contains(last.fromTo, last.from) =>
               CaretOnText(TextIndex(last.rows, last.fromTo.Start))

\* C39: Delete(fromTo) with the caret strictly before fromTo.Start leaves the
\* caret position unchanged, in the paragraph being edited or an earlier one
C39_CaretBeforeUnchanged ==
    (last.op = "Delete" /\ CmpPos(last.from, last.fromTo.Start) < 0) =>
        /\ ~panicked
        /\ caretPos = last.from


(***************************************************************************)
(* The rows WordWrapRows returns for the paragraphs of SpecWrap            *)
(***************************************************************************)
\* a row without the delimiter that ends it
WithoutDelimiter(row) ==
    IF row # <<>> /\ row[Len(row)] \in {HardLF, SoftLF} THEN SubSeq(row, 1, Len(row) - 1) ELSE row

\* the non-delimiter runes of the rows in order: a soft delimiter is none of
\* them wherever it stands, the hard delimiter's rune is a space unless it
\* ends a row
NonDelimiters(rows) ==
    SelectSeq(Flatten([i \in 1..Len(rows) |-> WithoutDelimiter(rows[i])]),
              LAMBDA x : x # SoftLF)

\* C34: WordWrapRows neither loses nor duplicates a cell: the non-delimiter
\* runes of its output rows in order are the non-delimiter runes of its input
\* rows in order
C34_NoCellLostOrDuplicated ==
    last.op = "WordWrapRows" =>
        /\ \A i \in 1..Len(Rows) : Len(Rows[i]) >= 1
        /\ Flatten([i \in 1..Len(Rows) |-> SubSeq(Rows[i], 1, Len(Rows[i]) - 1)])
               = NonDelimiters(last.before)

\* a paragraph of one row of five cells broken into several rows
C34_Witness ==
    /\ last.op = "WordWrapRows"
    /\ last.n = 1
    /\ Len(last.before) = 1
    /\ Len(NonDelimiters(last.before)) = MaxParaRunes
    /\ Len(Rows) >= 3
    /\ NonDelimiters(Rows) = NonDelimiters(last.before)

\* C35: every row WordWrapRows returns holds at most wrapCol runes before its
\* delimiter and ends with exactly one delimiter: the hard one on the last
\* row, on every other row the soft one with soft wrap and the hard one without
C35_RowsWithinWidth ==
    last.op = "WordWrapRows" =>
        /\ Len(Rows) >= 1
        /\ \A i \in 1..Len(Rows) :
              /\ Len(Rows[i]) >= 1
              /\ Len(Rows[i]) - 1 <= last.w
              /\ Rows[i][Len(Rows[i])] =
                     IF i = Len(Rows) \/ ~Config.SoftWrap THEN HardLF ELSE SoftLF
              /\ \A j \in 1..(Len(Rows[i]) - 1) : Rows[i][j] # SoftLF

\* soft wrap, three rows, the first of them full
C35_Witness ==
    /\ last.op = "WordWrapRows"
    /\ Config.SoftWrap
    /\ last.w = 2
    /\ Len(Rows) = 3
    /\ Len(Rows[1]) = 3
    /\ Rows[1][3] = SoftLF
    /\ Rows[3][Len(Rows[3])] = HardLF


(***************************************************************************)
(* WordWrapRows with the caret in the paragraph: every caret position of   *)
(* a paragraph whose rows end with their delimiters, reflowed once         *)
(***************************************************************************)
MaxCaretPara == 4

CellRunes == {97, 32}

\* the cells of a paragraph in one, two or three rows; every row but the last
\* ends with the soft delimiter and the last one with the hard delimiter
CaretParas ==
    UNION {{<<s \o <<HardLF>>>>}
           \cup {<<SubSeq(s, 1, k) \o <<SoftLF>>, SubSeq(s, k + 1, Len(s)) \o <<HardLF>>>> :
                    k \in 0..Len(s)}
           \cup UNION {{<<SubSeq(s, 1, k) \o <<SoftLF>>, SubSeq(s, k + 1, m) \o <<SoftLF>>,
                          SubSeq(s, m + 1, Len(s)) \o <<HardLF>>>> : m \in k..Len(s)} :
                          k \in 0..Len(s)} :
           s \in SeqsUpTo(CellRunes, MaxCaretPara)}

InitReflowCaret ==
    \E R \in CaretParas, w \in 1..Columns, softWrap \in BOOLEAN :
        \E p \in AllPositions(R) :
            /\ Rows = R
            /\ caretPos = p
            /\ Tags = NewTagContainer
            /\ Config = [NewConfig EXCEPT !.SoftWrap = softWrap]
            /\ panicked = FALSE
            /\ unhandled = FALSE
            /\ lineOffset = 0
            /\ NoGoroutines
            /\ last = [op |-> "rows", w |-> w]

\* one call of WordWrapRows with the caret as its cursor; the caret becomes
\* the position the call returns
ReflowCaret ==
    /\ last.op = "rows"
    /\ LET r == WordWrapRows(Tags, Rows, last.w, Config.SoftWrap, HardLF, SoftLF,
                             caretPos.Line, caretPos.Column, 0, <<>>)
       IN  /\ Rows' = r.rows
           /\ caretPos' = Pos(r.row, r.col)
    /\ last' = [op |-> "WordWrapRows", w |-> last.w, before |-> Rows, from |-> caretPos]
    /\ UNCHANGED <<Tags, Config, panicked, unhandled, lineOffset>>
    /\ SameGoroutines

NextReflowCaret == ReflowCaret

SpecReflowCaret == InitReflowCaret /\ [][NextReflowCaret]_vars

\* the number of cells of the rows before position p
CellsBefore(rows, p) ==
    Len(Flatten([i \in 1..p.Line |-> WithoutDelimiter(rows[i])])) + p.Column

\* the position of the cell with n cells before it
CellPos(rows, n) ==
    CHOOSE p \in AllPositions(rows) :
        /\ p.Column < Len(At(rows, p.Line)) - 1
        /\ CellsBefore(rows, p) = n

OnCell(rows, p) == p.Column < Len(At(rows, p.Line)) - 1

OnFinalDelimiter(rows, p) == p.Line = Len(rows) - 1 /\ ~OnCell(rows, p)

\* C36: the position WordWrapRows returns is the output position of the cell
\* the caret was on, of the next cell if the caret was on a soft delimiter,
\* and the last position of the last output row if it was on the final hard
\* delimiter
C36_CaretTracked ==
    last.op = "WordWrapRows" =>
        LET n == CellsBefore(last.before, last.from)
        IN  /\ OnFinalDelimiter(last.before, last.from) =>
                   caretPos = Pos(Len(Rows) - 1, Len(Rows[Len(Rows)]) - 1)
            /\ (~OnFinalDelimiter(last.before, last.from)
                  /\ n < Len(NonDelimiters(last.before))) =>
                   caretPos = CellPos(Rows, n)


(***************************************************************************)
(* CmpPos with its arguments exchanged                                     *)
(***************************************************************************)
\* C37: for all positions a and b, those with IsLineNumber set included,
\* CmpPos(a, b) = -CmpPos(b, a)
C37_CmpPosAntisymmetric ==
    last.op = "CmpPos" => last.ab = 0 - last.ba


(***************************************************************************)
(* LoadText and LoadTextFromFile with Editor.mutex.  Goroutine 1 is the    *)
(* caller, goroutine 2 the one Refresh starts to refresh later.  repaint   *)
(* holds lastRefreshed (refreshed: it is not the zero time), refresher,    *)
(* and the holders of Editor.mutex: writer, 0 for none, and readers.       *)
(* sync.RWMutex is not reentrant: RLock waits while any goroutine, the     *)
(* caller included, holds the write lock.                                  *)
(***************************************************************************)
MaxLoadText == 2

MaxLoads == 2

Loader == 1

Deferred == 2

LoadGoroutines == {Loader, Deferred}

\* the input: what utfbom.Skip finds, whether the file opens and the stream
\* reads without error, and the text
LoadInputs ==
    [enc : {"UTF8", "Unknown", "UTF16"}, readable : BOOLEAN,
     text : SeqsUpTo(TextRunes, MaxLoadText)]

LoadFunctions == {"LoadText", "LoadTextFromFile"}

NoInput == [enc |-> "Unknown", readable |-> TRUE, text |-> <<>>]

InitLoadText ==
    /\ AsConstructed
    /\ goroutines = [g \in LoadGoroutines |->
                        [pc |-> "idle", fn |-> "Refresh", in |-> NoInput, cont |-> "none",
                         err |-> "nil", calls |-> 0]]
    /\ repaint = [refreshed |-> FALSE, refresher |-> FALSE, writer |-> 0, readers |-> {}]
    /\ mutex = 0
    /\ blink = <<>>

\* the caller calls LoadText or LoadTextFromFile
LoadCall ==
    /\ ~panicked
    /\ goroutines[Loader].pc = "idle"
    /\ goroutines[Loader].calls < MaxLoads
    /\ \E fn \in LoadFunctions, in \in LoadInputs :
          goroutines' = [goroutines EXCEPT ![Loader] =
                            [pc |-> "lock", fn |-> fn, in |-> in, cont |-> "none",
                             err |-> "nil", calls |-> @.calls + 1]]
    /\ SameBuffer
    /\ UNCHANGED <<panicked, last, mutex, repaint, blink>>

\* z.mutex.Lock()
LoadLock ==
    /\ ~panicked
    /\ goroutines[Loader].pc = "lock"
    /\ repaint.writer = 0
    /\ repaint.readers = {}
    /\ goroutines' = [goroutines EXCEPT ![Loader].pc = "body"]
    /\ repaint' = [repaint EXCEPT !.writer = Loader]
    /\ SameBuffer
    /\ UNCHANGED <<panicked, last, mutex, blink>>

\* the error the function returns before it calls SetText, "nil" for none
LoadError(fn, in) ==
    IF fn = "LoadTextFromFile"
    THEN (IF ~in.readable THEN "open"
          ELSE IF in.enc \notin {"Unknown", "UTF8"} THEN "ErrInvalidStream" ELSE "nil")
    ELSE (IF in.enc \notin {"Unknown", "UTF8"} THEN "ErrInvalidStream"
          ELSE IF ~in.readable THEN "read" ELSE "nil")

\* from the lock to the return of an error, or to the Refresh at the end of
\* SetText
LoadRead ==
    /\ ~panicked
    /\ goroutines[Loader].pc = "body"
    /\ LET g   == goroutines[Loader]
           err == LoadError(g.fn, g.in)
       IN  IF err # "nil"
           THEN /\ goroutines' = [goroutines EXCEPT ![Loader].pc = "unlock",
                                                    ![Loader].err = err]
                /\ SameBuffer
                /\ UNCHANGED <<panicked, last>>
           ELSE LET z == SetTextOp(Z, g.in.text)
                IN  /\ goroutines' = [goroutines EXCEPT ![Loader].pc = "rlock",
                                                        ![Loader].cont = "SetText"]
                    /\ Rows' = z.Rows
                    /\ caretPos' = z.caretPos
                    /\ Tags' = z.T
                    /\ Config' = z.Config
                    /\ panicked' = z.panic
                    /\ unhandled' = z.unhandled
                    /\ lineOffset' = lineOffset
                    /\ last' = [op |-> "SetText"]
    /\ UNCHANGED <<mutex, repaint, blink>>

\* the deferred z.mutex.Unlock(); LoadTextFromFile goes on to its deferred
\* Refresh, LoadText returns
LoadUnlock ==
    /\ ~panicked
    /\ goroutines[Loader].pc = "unlock"
    /\ repaint' = [repaint EXCEPT !.writer = 0]
    /\ goroutines' = [goroutines EXCEPT ![Loader].pc =
                          IF goroutines[Loader].fn = "LoadTextFromFile" THEN "rlock" ELSE "idle",
                                        ![Loader].cont = "none"]
    /\ SameBuffer
    /\ UNCHANGED <<panicked, last, mutex, blink>>

\* z.mutex.RLock() of Refresh
RLockOf(g) ==
    /\ goroutines[g].pc = "rlock"
    /\ repaint.writer = 0
    /\ goroutines' = [goroutines EXCEPT ![g].pc = "read"]
    /\ repaint' = [repaint EXCEPT !.readers = @ \cup {g}]
    /\ SameBuffer
    /\ UNCHANGED <<panicked, last, mutex, blink>>

\* Refresh returns in goroutine g: inside SetText the caller goes on in the
\* function that called SetText, LoadText sets the caret, and both come to
\* the deferred Unlock; a deferred Refresh ends the call
RefreshReturns(g, rp) ==
    /\ repaint' = rp
    /\ IF goroutines[g].cont = "SetText"
       THEN LET z == IF goroutines[g].fn = "LoadText"
                     THEN SetCaretOp(Z, Pos(LastLine(Z), LastColumn(Z, LastLine(Z))))
                     ELSE Z
            IN  /\ goroutines' = [goroutines EXCEPT ![g].pc = "unlock"]
                /\ Rows' = z.Rows
                /\ caretPos' = z.caretPos
                /\ Tags' = z.T
                /\ Config' = z.Config
                /\ panicked' = z.panic
                /\ unhandled' = z.unhandled
                /\ lineOffset' = lineOffset
            /\ last' = [op |-> "Refresh"]
       ELSE /\ goroutines' = [goroutines EXCEPT ![g].pc = "idle"]
            /\ SameBuffer
            /\ UNCHANGED <<panicked, last>>
    /\ UNCHANGED <<mutex, blink>>

\* the reads under the read lock, RUnlock and the test of the interval, which
\* has passed when lastRefreshed is the zero time: on to the repaint, return
\* because a refresher is set, or start the goroutine that sleeps and calls
\* Refresh (it is modelled when goroutine 2 is free)
ReadUnlockOf(g) ==
    /\ goroutines[g].pc = "read"
    /\ LET rp == [repaint EXCEPT !.readers = @ \ {g}]
       IN  \E due \in (IF repaint.refreshed THEN BOOLEAN ELSE {TRUE}) :
              IF due
              THEN /\ goroutines' = [goroutines EXCEPT ![g].pc = "set"]
                   /\ repaint' = rp
                   /\ SameBuffer
                   /\ UNCHANGED <<panicked, last, mutex, blink>>
              ELSE IF repaint.refresher \/ g = Deferred \/ goroutines[Deferred].pc # "idle"
              THEN RefreshReturns(g, rp)
              ELSE /\ goroutines' = [goroutines EXCEPT ![g].pc = "idle",
                                                       ![Deferred].pc = "sleep"]
                   /\ repaint' = rp
                   /\ SameBuffer
                   /\ UNCHANGED <<panicked, last, mutex, blink>>

\* z.refresher is set between Lock and Unlock
SetRefresherOf(g) ==
    /\ goroutines[g].pc = "set"
    /\ repaint.writer = 0
    /\ repaint.readers = {}
    /\ goroutines' = [goroutines EXCEPT ![g].pc = "call"]
    /\ repaint' = [repaint EXCEPT !.refresher = TRUE]
    /\ SameBuffer
    /\ UNCHANGED <<panicked, last, mutex, blink>>

\* z.refresher(): a nil function panics, the function set repaints
CallRefresherOf(g) ==
    /\ goroutines[g].pc = "call"
    /\ IF repaint.refresher
       THEN /\ goroutines' = [goroutines EXCEPT ![g].pc = "clear"]
            /\ repaint' = [repaint EXCEPT !.refreshed = TRUE]
            /\ UNCHANGED panicked
       ELSE /\ panicked' = TRUE
            /\ UNCHANGED <<goroutines, repaint>>
    /\ SameBuffer
    /\ UNCHANGED <<last, mutex, blink>>

\* the deferred function sets z.refresher to nil between Lock and Unlock, and
\* Refresh returns
ClearRefresherOf(g) ==
    /\ goroutines[g].pc = "clear"
    /\ repaint.writer = 0
    /\ repaint.readers = {}
    /\ RefreshReturns(g, [repaint EXCEPT !.refresher = FALSE])

\* time.Sleep(interval) is over and the goroutine calls Refresh
LoadWake ==
    /\ ~panicked
    /\ goroutines[Deferred].pc = "sleep"
    /\ goroutines' = [goroutines EXCEPT ![Deferred].pc = "rlock"]
    /\ SameBuffer
    /\ UNCHANGED <<panicked, last, mutex, repaint, blink>>

LoadRLock == ~panicked /\ \E g \in LoadGoroutines : RLockOf(g)

LoadReadUnlock == ~panicked /\ \E g \in LoadGoroutines : ReadUnlockOf(g)

LoadSetRefresher == ~panicked /\ \E g \in LoadGoroutines : SetRefresherOf(g)

LoadCallRefresher == ~panicked /\ \E g \in LoadGoroutines : CallRefresherOf(g)

LoadClearRefresher == ~panicked /\ \E g \in LoadGoroutines : ClearRefresherOf(g)

NextLoadText ==
    \/ LoadCall
    \/ LoadLock
    \/ LoadRead
    \/ LoadUnlock
    \/ LoadRLock
    \/ LoadReadUnlock
    \/ LoadSetRefresher
    \/ LoadCallRefresher
    \/ LoadClearRefresher
    \/ LoadWake

SpecLoadText == InitLoadText /\ [][NextLoadText]_vars

\* every goroutine that can take its next step takes it
SpecLoadTextFair ==
    /\ SpecLoadText
    /\ WF_vars(LoadLock)
    /\ WF_vars(LoadRead)
    /\ WF_vars(LoadUnlock)
    /\ WF_vars(LoadWake)
    /\ \A g \in LoadGoroutines :
          /\ WF_vars(~panicked /\ RLockOf(g))
          /\ WF_vars(~panicked /\ ReadUnlockOf(g))
          /\ WF_vars(~panicked /\ SetRefresherOf(g))
          /\ WF_vars(~panicked /\ CallRefresherOf(g))
          /\ WF_vars(~panicked /\ ClearRefresherOf(g))

\* a call of LoadText or LoadTextFromFile on a readable UTF-8 input is running
LoadRuns ==
    /\ goroutines[Loader].pc # "idle"
    /\ LoadError(goroutines[Loader].fn, goroutines[Loader].in) = "nil"

\* C38: LoadText and LoadTextFromFile return to the caller for every readable
\* UTF-8 input
C38_LoadTextReturns == LoadRuns ~> ~LoadRuns


(***************************************************************************)
(* The deferred repaint beside the owner's Insert, Delete and Return.      *)
(* goroutines.owner is the goroutine of the editor's caller: between the   *)
(* first and the last assignment to z.Rows of an operation its pc is       *)
(* "mid", and z0 is the editor the operation started from.                 *)
(* goroutines.painter is the goroutine Refresh starts when it is called    *)
(* less than MinRefreshInterval after the previous repaint: it sleeps,     *)
(* calls Refresh, and runs the loops of refreshProc over z.Rows cell by    *)
(* cell.  Neither goroutine takes a lock around z.Rows.                    *)
(***************************************************************************)
MaxRepaintText == 2

MaxRepaintOps == 2

RepaintInserts == {<<97, 97>>}

OwnerIdle(n) == [pc |-> "idle", n |-> n]

PainterIdle == [pc |-> "idle", i |-> 0, j |-> 0]

InitRepaint ==
    /\ AsConstructed
    /\ goroutines = [owner |-> OwnerIdle(0), painter |-> PainterIdle]
    /\ repaint = [refreshed |-> FALSE]
    /\ mutex = 0
    /\ blink = <<>>

\* z.Refresh() at the end of an operation of the owner: the repaint on the
\* owner's goroutine when the interval has passed, else the start of the
\* goroutine that sleeps and refreshes, unless a repaint is running or
\* the goroutine is started already
OwnerRefresh(n) ==
    /\ repaint' = [repaint EXCEPT !.refreshed = TRUE]
    /\ \E due \in (IF repaint.refreshed THEN BOOLEAN ELSE {TRUE}) :
          goroutines' = [owner   |-> OwnerIdle(n),
                         painter |-> IF ~due /\ goroutines.painter.pc = "idle"
                                     THEN [PainterIdle EXCEPT !.pc = "sleep"]
                                     ELSE goroutines.painter]

\* the buffer after a step of the owner
OwnerBuffer(z, op) ==
    /\ Rows' = z.Rows
    /\ caretPos' = z.caretPos
    /\ Tags' = z.T
    /\ Config' = z.Config
    /\ panicked' = z.panic
    /\ unhandled' = z.unhandled
    /\ lineOffset' = lineOffset
    /\ last' = op
    /\ UNCHANGED <<mutex, blink>>

\* the operation of the owner comes to its first assignment to z.Rows
OwnerBegins(z, op, z0) ==
    /\ OwnerBuffer(z, [op |-> op, at |-> "mid"])
    /\ repaint' = repaint
    /\ goroutines' = [goroutines EXCEPT !.owner =
                          [pc |-> "mid", n |-> goroutines.owner.n + 1, op |-> op, z0 |-> z0]]

\* the operation of the owner returns
OwnerEnds(z) ==
    /\ OwnerBuffer(z, [op |-> goroutines.owner.op, at |-> "end"])
    /\ OwnerRefresh(goroutines.owner.n)

RepaintSetText ==
    /\ ~panicked
    /\ last.op = "NewEditor"
    /\ goroutines.owner.pc = "idle"
    /\ \E s \in SeqsUpTo(TextRunes, MaxRepaintText) :
          OwnerBuffer(SetTextOp(Z, s), [op |-> "SetText", at |-> "end"])
    /\ OwnerRefresh(0)

RepaintSetCaret ==
    /\ ~panicked
    /\ last.op # "NewEditor"
    /\ goroutines.owner.pc = "idle"
    /\ \E pos \in AllPositions(Rows) \ {caretPos} :
          OwnerBuffer(SetCaretOp(Z, pos), [op |-> "SetCaret", at |-> "end"])
    /\ UNCHANGED <<goroutines, repaint>>

OwnerCalls ==
    /\ ~panicked
    /\ last.op # "NewEditor"
    /\ goroutines.owner.pc = "idle"
    /\ goroutines.owner.n < MaxRepaintOps

\* Delete up to the reflow: the rows of the range are joined
DeleteBegins ==
    /\ OwnerCalls
    /\ \E a \in AllPositions(Rows), b \in AllPositions(Rows) :
          /\ CmpPos(a, b) <= 0
          /\ CmpPos(b, LastPos(Z)) < 0
          /\ LET z1 == RemoveSelection(Z)
                 f  == DeleteRange(z1, Interval(a, b))
             IN  OwnerBegins(DeleteRows(DeleteAdjustTags(z1, TagsLookupRange(z1.T, ToEnd(z1, f.Start)), f), f),
                             "Delete", [z |-> Z, fromTo |-> Interval(a, b)])

\* Return up to the insertion of the new row: the caret's row is cut
ReturnBegins ==
    /\ OwnerCalls
    /\ Len(Rows) < MaxCaretRows
    /\ LET pos == caretPos
           t1  == adjustTagLines(Tags, TagsLookupRange(Tags, ToEnd(Z, pos)), 1, pos)
       IN  IF pos.Column = 0 \/ ~RowOK(Z, pos.Line) \/ pos.Column > Len(At(Rows, pos.Line))
           THEN OwnerBegins([Z EXCEPT !.T = t1], "Return", [z |-> Z])
           ELSE OwnerBegins([Z EXCEPT !.T = t1,
                                      !.Rows[pos.Line + 1] = Slice(@, 0, pos.Column)],
                            "Return", [z |-> Z])

\* z.Rows of Insert before the reflowed rows are put back: rows deleted, or
\* empty rows inserted, after the paragraph
InsertMidRows(z, zf, pos) ==
    LET startRow == FindParagraphStart(z.Rows, pos.Line, HardLF)
        endRow   == FindParagraphEnd(z.Rows, pos.Line, HardLF)
        delta    == Len(zf.Rows) - Len(z.Rows)
    IN  IF delta < 0
        THEN Slice(z.Rows, 0, endRow + 1 + delta) \o Slice(z.Rows, endRow + 1, Len(z.Rows))
        ELSE Slice(z.Rows, 0, endRow + 1) \o [i \in 1..delta |-> <<>>]
             \o Slice(z.Rows, endRow + 1, Len(z.Rows))

\* Insert up to the loop that puts the reflowed rows back
InsertBegins ==
    /\ OwnerCalls
    /\ \E r \in RepaintInserts, pos \in AllPositions(Rows) :
          LET zf == InsertOp(Z, r, pos)
          IN  /\ Len(zf.Rows) <= MaxCaretRows
              /\ OwnerBegins(IF zf.panic THEN zf
                             ELSE [zf EXCEPT !.Rows = InsertMidRows(Z, zf, pos)],
                             "Insert", [z |-> Z, r |-> r, pos |-> pos])

\* the rest of the operation, and its Refresh
OwnerFinishes ==
    /\ ~panicked
    /\ goroutines.owner.pc = "mid"
    /\ LET z0 == goroutines.owner.z0
       IN  OwnerEnds(IF goroutines.owner.op = "Delete" THEN DeleteOp(z0.z, z0.fromTo)
                     ELSE IF goroutines.owner.op = "Return" THEN ReturnOp(z0.z)
                     ELSE InsertOp(z0.z, z0.r, z0.pos))

\* a step of the painter to the record r
Paints(r) ==
    /\ goroutines' = [goroutines EXCEPT !.painter = r]
    /\ SameBuffer
    /\ UNCHANGED <<panicked, last, mutex, repaint, blink>>

\* an index expression of refreshProc is out of range
PaintPanics ==
    /\ panicked' = TRUE
    /\ last' = [op |-> "refreshProc", error |-> "index out of range",
                i |-> goroutines.painter.i, j |-> goroutines.painter.j]
    /\ SameBuffer
    /\ UNCHANGED <<goroutines, mutex, repaint, blink>>

\* time.Sleep is over, Refresh finds the interval passed and calls refreshProc
PaintWake ==
    /\ ~panicked
    /\ goroutines.painter.pc = "sleep"
    /\ Paints([PainterIdle EXCEPT !.pc = "row"])

\* for i := range z.Lines, with the test i+z.lineOffset >= len(z.Rows); after
\* the last line refreshProc returns
PaintRow ==
    /\ ~panicked
    /\ goroutines.painter.pc = "row"
    /\ LET p == goroutines.painter
       IN  IF p.i >= Lines THEN Paints(PainterIdle)
           ELSE IF p.i + lineOffset >= Len(Rows) THEN Paints([p EXCEPT !.i = @ + 1])
           ELSE Paints([p EXCEPT !.pc = "col", !.j = 0])

\* for j := range z.Columns, with the test j+z.columnOffset >= len(z.Rows[i+z.lineOffset])
PaintCol ==
    /\ ~panicked
    /\ goroutines.painter.pc = "col"
    /\ LET p == goroutines.painter
       IN  IF p.j >= Columns THEN Paints([p EXCEPT !.pc = "row", !.i = @ + 1])
           ELSE IF p.i + lineOffset >= Len(Rows) THEN PaintPanics
           ELSE IF p.j >= Len(At(Rows, p.i + lineOffset)) THEN Paints([p EXCEPT !.j = @ + 1])
           ELSE Paints([p EXCEPT !.pc = "cell"])

\* z.grid.Rows[i].Cells[j].Rune = z.Rows[i+z.lineOffset][j+z.columnOffset]
PaintCell ==
    /\ ~panicked
    /\ goroutines.painter.pc = "cell"
    /\ LET p == goroutines.painter
       IN  IF p.i + lineOffset >= Len(Rows) THEN PaintPanics
           ELSE IF p.j >= Len(At(Rows, p.i + lineOffset)) THEN PaintPanics
           ELSE Paints([p EXCEPT !.pc = "col", !.j = @ + 1])

NextRepaint ==
    \/ RepaintSetText
    \/ RepaintSetCaret
    \/ DeleteBegins
    \/ ReturnBegins
    \/ InsertBegins
    \/ OwnerFinishes
    \/ PaintWake
    \/ PaintRow
    \/ PaintCol
    \/ PaintCell

SpecRepaint == InitRepaint /\ [][NextRepaint]_vars

\* the painter is inside the loops of refreshProc
Painting == goroutines.painter.pc \in {"col", "cell"}

\* the owner is between two assignments to z.Rows
Mutating == goroutines.owner.pc = "mid"

\* C40: the deferred repaint never reads Rows while an Insert, Delete or
\* Return of the owner is in the middle of changing them, and never indexes
\* a row or column that no longer exists
C40_RepaintExcludesMutation ==
    /\ ~(Painting /\ Mutating)
    /\ last.op # "refreshProc"

====
